---- MODULE Spec2Model ----
(***************************************************************************)
(* Process supervisor (StateManager), pipeline engine (PipelineEngine) and *)
(* process state machine of pipeline-kit, crates/core.                     *)
(*                                                                         *)
(* StateManager::start_pipeline registers a Pending process and spawns a   *)
(* tokio task that runs PipelineEngine::run and writes the result back.    *)
(* PipelineEngine::run builds its own Process with create_process (a fresh *)
(* uuid) and mutates only that local value; the registry entry is touched  *)
(* by the task wrapper (update_process_state / handle_pipeline_failure)    *)
(* and by pause / resume / kill.                                           *)
(*                                                                         *)
(* A task position (pc) is the await the task is about to execute: an      *)
(* event send, an agent call or a lock acquisition.  JoinHandle::abort     *)
(* only requests cancellation: the task is torn down when it next yields,  *)
(* and an await that is ready does not yield, so an aborted task either    *)
(* stops at its current await or goes on.                                  *)
(***************************************************************************)
EXTENDS Integers, Sequences, FiniteSets, TLC

\* ---------------------------------------------------------------- bounds
MaxSteps == 2
MaxOps == 2
MaxLines == 3
MaxInvocations == 3

\* Registry keys (the uuids start_pipeline hands out).
ProcIds == {1}

\* ------------------------------------------------------- protocol models
Terminal == {"Completed", "Failed", "Killed"}

NoProc == [id |-> 0, status |-> "-", current_step_index |-> 0,
           logs |-> <<>>, resume_notifier |-> 0]

AgentStep(name) == [kind |-> "Agent", name |-> name]

HumanReviewStep == [kind |-> "HumanReview", name |-> "-"]

\* Agents known to the AgentManager and the stream each one yields: agent1 is
\* MockAgent::success, failing-agent is MockAgent::failing (its stream carries
\* an Err item), nonexistent-agent is not in the agents map.
SuccessStream == << <<"Thought", "Mock agent thinking">>,
                    <<"MessageChunk", "Mock response">>,
                    <<"Completed", "">> >>

FailingStream == << <<"Thought", "Starting...">>,
                    <<"Err", "Mock failure">> >>

AgentNames == {"agent1", "failing-agent", "nonexistent-agent"}

\* mock-agent is a MockAgent::new(true, events) with any events: the stream
\* its execute returns is the one recorded in executed.
Registered == {"agent1", "failing-agent", "mock-agent"}

Steps == {AgentStep(n) : n \in AgentNames} \cup {HumanReviewStep}

Pipelines == UNION {[1..n -> Steps] : n \in 0..MaxSteps}

\* ----------------------------------------------------------------- events
Ev(type, pid, status, step, content) ==
    [type |-> type, process_id |-> pid, status |-> status,
     step_index |-> step, content |-> content]

ProcessStarted(pid) == Ev("ProcessStarted", pid, "-", 0, <<>>)

ProcessStatusUpdate(p) ==
    Ev("ProcessStatusUpdate", p.id, p.status, p.current_step_index, <<>>)

ProcessLogChunk(pid, content) == Ev("ProcessLogChunk", pid, "-", 0, content)

ProcessCompleted(pid) == Ev("ProcessCompleted", pid, "-", 0, <<>>)

ProcessError(pid, error) == Ev("ProcessError", pid, "-", 0, error)

ProcessKilled(pid) == Ev("ProcessKilled", pid, "-", 0, <<>>)

ProcessResumed(pid) == Ev("ProcessResumed", pid, "-", 0, <<>>)

\* ------------------------------------------------------------------ state
VARIABLES
    processes,     \* StateManager.processes: id -> Process (NoProc: absent)
    task_handles,  \* StateManager.task_handles: ids holding a JoinHandle
    pipeline,      \* the pipeline start_pipeline was called with, per id
    starting,      \* progress of the start_pipeline call, per id
    killing,       \* a kill_process call between its two steps, per id
    task,          \* the spawned tokio task, per id
    events,        \* everything sent on events_tx so far, in order
    ops,           \* number of get / pause / resume / kill calls made
    receiver,      \* the Receiver end of events_tx has not been dropped
    registry_lock, \* holder of the StateManager.processes mutex (0: free)
    result,        \* what the latest pause / resume / kill call returned
    listener,      \* positions of events the holder of the Receiver has got
    process_lock,  \* holder of the mutex around each registered Process (0: free)
    calls,         \* the StateManager call each caller is making, and its position
    agents,        \* AgentManager.agents: name -> the agent registered
    fallback_agent_name,  \* AgentManager.fallback_agent_name
    executed,      \* the latest AgentManager::execute call and its result
    child_stdout,  \* the lines the adapter's subprocess writes to its stdout
    adapter_stream,  \* the stream an adapter's execute returned
    agents_md,     \* content of AGENTS.md in the project root
    ensuring       \* the ensure_agent_md calls under way, per invocation

\* The state of the agent adapters and of the AgentManager under test.
adapter_vars == <<agents, fallback_agent_name, executed, child_stdout,
                  adapter_stream, agents_md, ensuring>>

\* The state of the StateManager, its tasks and its event channel.
\* The mutexes of the registered processes and the calls that take them.
lock_vars == <<process_lock, calls>>

supervisor_vars == <<processes, task_handles, pipeline, starting, killing, task,
                     events, ops, receiver, registry_lock, result, listener,
                     lock_vars>>

vars == <<supervisor_vars, adapter_vars>>

NoTask == [pc |-> "none", process |-> NoProc, step_index |-> 0, item |-> 0,
           abort |-> FALSE]

\* The concurrent callers of the StateManager (the ops handler, tests).
Callers == {1, 2}

\* A caller that is making no call.
NoCaller == [op |-> "-", id |-> 0, pc |-> "idle"]

\* StateManager::new: empty maps; keys is the set of ids start_pipeline will
\* hand out.  Nobody has received an event yet.
StateManagerNew(keys) ==
    /\ processes = [i \in keys |-> NoProc]
    /\ task_handles = {}
    /\ pipeline = [i \in keys |-> <<>>]
    /\ starting = [i \in keys |-> "none"]
    /\ killing = [i \in keys |-> FALSE]
    /\ task = [i \in keys |-> NoTask]
    /\ events = <<>>
    /\ ops = 0
    /\ receiver = TRUE
    /\ registry_lock = 0
    /\ result = "-"
    /\ listener = <<>>
    /\ process_lock = [i \in keys |-> 0]
    /\ calls = [c \in Callers |-> NoCaller]

\* No AgentManager::execute call has been made.
NoCall == [agent_name |-> "-", result |-> "-"]

\* No adapter has been executed: no subprocess, no stream.
NoStream == [adapter |-> "-", spawned |-> FALSE, pos |-> 0, items |-> <<>>,
             done |-> FALSE]

\* AGENTS.md does not exist.
Absent == <<"absent">>

\* No ensure_agent_md call is under way.
NotEnsuring == [pc |-> "idle", adapter |-> "-"]

\* No adapter is at work.
AdaptersIdle ==
    /\ agents = <<>>
    /\ fallback_agent_name = "None"
    /\ executed = NoCall
    /\ child_stdout = <<>>
    /\ adapter_stream = NoStream
    /\ agents_md = Absent
    /\ ensuring = <<>>

InitOver(keys) == StateManagerNew(keys) /\ AdaptersIdle

Init == InitOver(ProcIds)

\* --------------------------------------------------- process state machine
create_process(uuid) ==
    [id |-> uuid, status |-> "Pending", current_step_index |-> 0,
     logs |-> <<>>, resume_notifier |-> 0]

SetStatus(p, s) == [p EXCEPT !.status = s]

start_process(p) ==
    [process |-> SetStatus(p, "Running"),
     sent |-> <<ProcessStatusUpdate(SetStatus(p, "Running"))>>]

pause_for_human_review(p) ==
    [process |-> SetStatus(p, "HumanReview"),
     sent |-> <<ProcessStatusUpdate(SetStatus(p, "HumanReview"))>>]

pause_process(p) ==
    [process |-> SetStatus(p, "Paused"),
     sent |-> <<ProcessStatusUpdate(SetStatus(p, "Paused"))>>]

\* Mutant: every notify_one stores one more permit, like a semaphore.
notify_one_accumulates(permits) == permits + 1

\* Notify::notify_one with no task waiting in notified(): the Notify stores a
\* permit, and it holds at most one.  resume_notifier is the number of
\* permits stored; no code calls notified() on it.
notify_one(permits) == IF permits = 0 THEN 1 ELSE permits

resume_process(p) ==
    [process |-> [SetStatus(p, "Running") EXCEPT
                      !.resume_notifier = notify_one(@)],
     sent |-> <<ProcessStatusUpdate(SetStatus(p, "Running")),
                ProcessResumed(p.id)>>]

kill_process_state(p) ==
    [process |-> SetStatus(p, "Killed"),
     sent |-> <<ProcessStatusUpdate(SetStatus(p, "Killed")),
                ProcessKilled(p.id)>>]

\* Mutant: the log list is started anew with the line.
log_to_process_truncates(p, message) ==
    [process |-> [p EXCEPT !.logs = <<message>>],
     sent |-> <<ProcessLogChunk(p.id, message)>>]

log_to_process(p, message) ==
    [process |-> [p EXCEPT !.logs = Append(@, message)],
     sent |-> <<ProcessLogChunk(p.id, message)>>]

advance_step(p) == [p EXCEPT !.current_step_index = @ + 1]

\* ------------------------------------------------------- PipelineEngine
AgentStreamOf(name) ==
    IF name = "failing-agent" THEN FailingStream
    ELSE IF name = "mock-agent" THEN executed.result.stream
    ELSE SuccessStream

\* AgentManager::execute without a fallback: Err for an unregistered name.
ManagerExecute(name) ==
    IF name \in Registered
    THEN [ok |-> TRUE, stream |-> AgentStreamOf(name)]
    ELSE [ok |-> FALSE, stream |-> <<>>]

\* The uuid create_process draws inside PipelineEngine::run for the run of
\* registry key i: Uuid::new_v4 never repeats a registry key or another run.
EngineUuid(i) == 0 - i

\* A send on events_tx.  key (the registry key the sender works for), src
\* (the run or a StateManager call) and delivered (the send returned Ok: the
\* Receiver was alive) are not part of the Event: they record who sent it and
\* what became of it, for the properties below.  The result of a send is
\* discarded (let _ = ...), so a failed send changes nothing else.
Stamp(e, i, src) ==
    [type |-> e.type, process_id |-> e.process_id, status |-> e.status,
     step_index |-> e.step_index, content |-> e.content, key |-> i, src |-> src,
     delivered |-> receiver]

Emit(i, src, sent) ==
    events' = events \o [k \in 1..Len(sent) |-> Stamp(sent[k], i, src)]

Goto(i, pc, p) == task' = [task EXCEPT ![i].pc = pc, ![i].process = p]

At(i, pc) == task[i].pc = pc

CurrentStep(i) == pipeline[i][task[i].step_index + 1]

HasStep(i) == task[i].step_index < Len(pipeline[i])

\* run: create_process and the ProcessStarted send.
EngineCreate(i) ==
    /\ At(i, "create")
    /\ LET p == create_process(EngineUuid(i))
       IN /\ Goto(i, "start", p)
          /\ Emit(i, "run", <<ProcessStarted(p.id)>>)
    /\ UNCHANGED <<processes, task_handles, pipeline, starting, killing, ops,
                   receiver, registry_lock, result, adapter_vars, lock_vars, listener>>

\* Mutant: the result of the send is not discarded; a failed send ends the
\* run with an error.
EngineStartChecksSend(i) ==
    /\ At(i, "start")
    /\ LET r == start_process(task[i].process)
       IN /\ Goto(i, IF receiver THEN "loop" ELSE "failure", r.process)
          /\ Emit(i, "run", r.sent)
    /\ UNCHANGED <<processes, task_handles, pipeline, starting, killing, ops,
                   receiver, registry_lock, result, adapter_vars, lock_vars, listener>>

\* run: start_process.
EngineStart(i) ==
    /\ At(i, "start")
    /\ LET r == start_process(task[i].process)
       IN /\ Goto(i, "loop", r.process)
          /\ Emit(i, "run", r.sent)
    /\ UNCHANGED <<processes, task_handles, pipeline, starting, killing, ops,
                   receiver, registry_lock, result, adapter_vars, lock_vars, listener>>

\* Mutant: advance_step at the head of every loop turn, the first included.
AdvancedAlways(i) == advance_step(task[i].process)

\* Loop head: advance_step for every step but the first.
Advanced(i) ==
    IF task[i].step_index > 0 THEN advance_step(task[i].process) ELSE task[i].process

\* run, ProcessStep::Agent: the "Executing agent" log line.
EngineAgentStep(i) ==
    /\ At(i, "loop")
    /\ HasStep(i)
    /\ CurrentStep(i).kind = "Agent"
    /\ LET r == log_to_process(Advanced(i), <<"Executing agent: ", CurrentStep(i).name>>)
       IN /\ Goto(i, "execute", r.process)
          /\ Emit(i, "run", r.sent)
    /\ UNCHANGED <<processes, task_handles, pipeline, starting, killing, ops,
                   receiver, registry_lock, result, adapter_vars, lock_vars, listener>>

\* execute_agent_step: agent_manager.execute; an Err makes run call fail_process.
EngineExecute(i) ==
    /\ At(i, "execute")
    /\ LET r == ManagerExecute(CurrentStep(i).name)
       IN task' = [task EXCEPT ![i].pc = IF r.ok THEN "pump" ELSE "fail",
                               ![i].item = 1]
    /\ UNCHANGED <<processes, task_handles, pipeline, starting, killing, events, ops,
                   receiver, registry_lock, result, adapter_vars, lock_vars, listener>>

Stream(i) == ManagerExecute(CurrentStep(i).name).stream

LogLineOf(item) ==
    IF item[1] = "Thought" THEN <<"[Thought] ", item[2]>>
    ELSE IF item[1] = "ToolCall" THEN <<"[Tool Call] ", item[2]>>
    ELSE <<"", item[2]>>

\* Mutant: a Completed item is passed over and the pump goes on to the items
\* behind it.
EnginePumpIgnoresCompleted(i) ==
    /\ At(i, "pump")
    /\ IF task[i].item > Len(Stream(i))
       THEN /\ task' = [task EXCEPT ![i].pc = "agent_done"]
            /\ UNCHANGED events
       ELSE IF Stream(i)[task[i].item][1] = "Completed"
       THEN /\ task' = [task EXCEPT ![i].item = @ + 1]
            /\ UNCHANGED events
       ELSE IF Stream(i)[task[i].item][1] = "Err"
       THEN /\ task' = [task EXCEPT ![i].pc = "fail"]
            /\ UNCHANGED events
       ELSE LET r == log_to_process(task[i].process, LogLineOf(Stream(i)[task[i].item]))
            IN /\ task' = [task EXCEPT ![i].process = r.process, ![i].item = @ + 1]
               /\ Emit(i, "run", r.sent)
    /\ UNCHANGED <<processes, task_handles, pipeline, starting, killing, ops,
                   receiver, registry_lock, result, adapter_vars, lock_vars, listener>>

\* Mutant: a stream that ends before a Completed item is an error.
EnginePumpRequiresCompleted(i) ==
    /\ At(i, "pump")
    /\ IF task[i].item > Len(Stream(i))
       THEN /\ task' = [task EXCEPT ![i].pc = "fail"]
            /\ UNCHANGED events
       ELSE IF Stream(i)[task[i].item][1] = "Completed"
       THEN /\ task' = [task EXCEPT ![i].pc = "agent_done"]
            /\ UNCHANGED events
       ELSE IF Stream(i)[task[i].item][1] = "Err"
       THEN /\ task' = [task EXCEPT ![i].pc = "fail"]
            /\ UNCHANGED events
       ELSE LET r == log_to_process(task[i].process, LogLineOf(Stream(i)[task[i].item]))
            IN /\ task' = [task EXCEPT ![i].process = r.process, ![i].item = @ + 1]
               /\ Emit(i, "run", r.sent)
    /\ UNCHANGED <<processes, task_handles, pipeline, starting, killing, ops,
                   receiver, registry_lock, result, adapter_vars, lock_vars, listener>>

\* Mutant: an Err item is skipped like a blank line and the pump goes on.
EnginePumpSkipsErr(i) ==
    /\ At(i, "pump")
    /\ IF task[i].item > Len(Stream(i)) \/ Stream(i)[task[i].item][1] = "Completed"
       THEN /\ task' = [task EXCEPT ![i].pc = "agent_done"]
            /\ UNCHANGED events
       ELSE IF Stream(i)[task[i].item][1] = "Err"
       THEN /\ task' = [task EXCEPT ![i].item = @ + 1]
            /\ UNCHANGED events
       ELSE LET r == log_to_process(task[i].process, LogLineOf(Stream(i)[task[i].item]))
            IN /\ task' = [task EXCEPT ![i].process = r.process, ![i].item = @ + 1]
               /\ Emit(i, "run", r.sent)
    /\ UNCHANGED <<processes, task_handles, pipeline, starting, killing, ops,
                   receiver, registry_lock, result, adapter_vars, lock_vars, listener>>

\* execute_agent_step: one turn of the while-let loop over the stream.
EnginePump(i) ==
    /\ At(i, "pump")
    /\ IF task[i].item > Len(Stream(i)) \/ Stream(i)[task[i].item][1] = "Completed"
       THEN /\ task' = [task EXCEPT ![i].pc = "agent_done"]
            /\ UNCHANGED events
       ELSE IF Stream(i)[task[i].item][1] = "Err"
       THEN /\ task' = [task EXCEPT ![i].pc = "fail"]
            /\ UNCHANGED events
       ELSE LET r == log_to_process(task[i].process, LogLineOf(Stream(i)[task[i].item]))
            IN /\ task' = [task EXCEPT ![i].process = r.process, ![i].item = @ + 1]
               /\ Emit(i, "run", r.sent)
    /\ UNCHANGED <<processes, task_handles, pipeline, starting, killing, ops,
                   receiver, registry_lock, result, adapter_vars, lock_vars, listener>>

\* run: the "Agent completed" log line, then the next loop turn.
EngineAgentDone(i) ==
    /\ At(i, "agent_done")
    /\ LET r == log_to_process(task[i].process,
                               <<"Agent completed: ", CurrentStep(i).name>>)
       IN /\ task' = [task EXCEPT ![i].pc = "loop", ![i].process = r.process,
                                  ![i].step_index = @ + 1]
          /\ Emit(i, "run", r.sent)
    /\ UNCHANGED <<processes, task_handles, pipeline, starting, killing, ops,
                   receiver, registry_lock, result, adapter_vars, lock_vars, listener>>

\* fail_process: the status change with its ProcessStatusUpdate, then the
\* ProcessError send; run then returns Err.
fail_process(p) ==
    [process |-> SetStatus(p, "Failed"),
     sent |-> <<ProcessStatusUpdate(SetStatus(p, "Failed")),
                ProcessError(p.id, <<"Agent execution failed">>)>>]

EngineFailStatus(i) ==
    /\ At(i, "fail")
    /\ LET r == fail_process(task[i].process)
       IN /\ Goto(i, "fail_error", r.process)
          /\ Emit(i, "run", <<r.sent[1]>>)
    /\ UNCHANGED <<processes, task_handles, pipeline, starting, killing, ops,
                   receiver, registry_lock, result, adapter_vars, lock_vars, listener>>

EngineFailError(i) ==
    /\ At(i, "fail_error")
    /\ Goto(i, "failure", task[i].process)
    /\ Emit(i, "run", <<fail_process(task[i].process).sent[2]>>)
    /\ UNCHANGED <<processes, task_handles, pipeline, starting, killing, ops,
                   receiver, registry_lock, result, adapter_vars, lock_vars, listener>>

\* run, ProcessStep::HumanReview: the "Pausing for human review" log line.
EngineHumanReviewStep(i) ==
    /\ At(i, "loop")
    /\ HasStep(i)
    /\ CurrentStep(i).kind = "HumanReview"
    /\ LET r == log_to_process(Advanced(i), <<"Pausing for human review", "">>)
       IN /\ Goto(i, "review", r.process)
          /\ Emit(i, "run", r.sent)
    /\ UNCHANGED <<processes, task_handles, pipeline, starting, killing, ops,
                   receiver, registry_lock, result, adapter_vars, lock_vars, listener>>

\* Mutant: the run goes on with the next step instead of returning.
EngineReviewContinues(i) ==
    /\ At(i, "review")
    /\ LET r == pause_for_human_review(task[i].process)
       IN /\ task' = [task EXCEPT ![i].pc = "loop", ![i].process = r.process,
                                  ![i].step_index = @ + 1]
          /\ Emit(i, "run", r.sent)
    /\ UNCHANGED <<processes, task_handles, pipeline, starting, killing, ops,
                   receiver, registry_lock, result, adapter_vars, lock_vars, listener>>

\* run: pause_for_human_review, then the early return.
EngineReview(i) ==
    /\ At(i, "review")
    /\ LET r == pause_for_human_review(task[i].process)
       IN /\ Goto(i, "update", r.process)
          /\ Emit(i, "run", r.sent)
    /\ UNCHANGED <<processes, task_handles, pipeline, starting, killing, ops,
                   receiver, registry_lock, result, adapter_vars, lock_vars, listener>>

\* Mutant: the events are sent but the status stays what it was.
complete_process_keeps_status(p) ==
    [process |-> p,
     sent |-> <<ProcessStatusUpdate(p), ProcessCompleted(p.id)>>]

\* complete_process: the status change with its ProcessStatusUpdate, then the
\* ProcessCompleted send; run then returns Ok(process).
complete_process(p) ==
    [process |-> SetStatus(p, "Completed"),
     sent |-> <<ProcessStatusUpdate(SetStatus(p, "Completed")),
                ProcessCompleted(p.id)>>]

EngineCompleteStatus(i) ==
    /\ At(i, "loop")
    /\ ~HasStep(i)
    /\ LET r == complete_process(task[i].process)
       IN /\ Goto(i, "complete_event", r.process)
          /\ Emit(i, "run", <<r.sent[1]>>)
    /\ UNCHANGED <<processes, task_handles, pipeline, starting, killing, ops,
                   receiver, registry_lock, result, adapter_vars, lock_vars, listener>>

EngineCompleteEvent(i) ==
    /\ At(i, "complete_event")
    /\ Goto(i, "update", task[i].process)
    /\ Emit(i, "run", <<complete_process(task[i].process).sent[2]>>)
    /\ UNCHANGED <<processes, task_handles, pipeline, starting, killing, ops,
                   receiver, registry_lock, result, adapter_vars, lock_vars, listener>>

\* ------------------------------------------- StateManager: the spawned task
InRegistry(i) == processes[i] # NoProc

\* self.processes.lock().await returns at once only if nobody holds the mutex.
RegistryFree == registry_lock = 0

\* update_process_state: *process = final_process.
update_process_state(procs, i, final_process) ==
    IF procs[i] # NoProc THEN [procs EXCEPT ![i] = final_process] ELSE procs

\* handle_pipeline_failure: status Failed and an "Error" log line, no event.
handle_pipeline_failure(procs, i, error) ==
    IF procs[i] # NoProc
    THEN [procs EXCEPT ![i].status = "Failed",
                       ![i].logs = Append(@, <<"Error: ", error>>)]
    ELSE procs

\* The Ok arm of the spawned task.
TaskUpdate(i) ==
    /\ At(i, "update")
    /\ RegistryFree
    /\ processes' = update_process_state(processes, i, task[i].process)
    /\ task' = [task EXCEPT ![i].pc = "cleanup"]
    /\ UNCHANGED <<task_handles, pipeline, starting, killing, events, ops,
                   receiver, registry_lock, result, adapter_vars, lock_vars, listener>>

\* The Err arm of the spawned task.
TaskFailure(i) ==
    /\ At(i, "failure")
    /\ RegistryFree
    /\ processes' = handle_pipeline_failure(processes, i, "Agent error")
    /\ task' = [task EXCEPT ![i].pc = "cleanup"]
    /\ UNCHANGED <<task_handles, pipeline, starting, killing, events, ops,
                   receiver, registry_lock, result, adapter_vars, lock_vars, listener>>

\* The task removes its own handle and ends.
TaskCleanup(i) ==
    /\ At(i, "cleanup")
    /\ task_handles' = task_handles \ {i}
    /\ task' = [task EXCEPT ![i].pc = "done"]
    /\ UNCHANGED <<processes, pipeline, starting, killing, events, ops,
                   receiver, registry_lock, result, adapter_vars, lock_vars, listener>>

TaskLive(i) == task[i].pc \notin {"none", "done", "aborted"}

\* An aborted task is dropped at an await at which it yields.
TaskTeardown(i) ==
    /\ TaskLive(i)
    /\ task[i].abort
    /\ task' = [task EXCEPT ![i].pc = "aborted"]
    /\ UNCHANGED <<processes, task_handles, pipeline, starting, killing, events, ops,
                   receiver, registry_lock, result, adapter_vars, lock_vars, listener>>

\* ------------------------------------------------ StateManager: operations
\* create_and_register_process: a new id, registered as Pending.
StartRegister(i, p) ==
    /\ starting[i] = "none"
    /\ RegistryFree
    /\ processes' = [processes EXCEPT ![i] = create_process(i)]
    /\ pipeline' = [pipeline EXCEPT ![i] = p]
    /\ starting' = [starting EXCEPT ![i] = "registered"]
    /\ UNCHANGED <<task_handles, killing, task, events, ops, receiver, registry_lock,
                   result, adapter_vars, lock_vars, listener>>

\* spawn_pipeline_execution: tokio::spawn of the task.
StartSpawn(i) ==
    /\ starting[i] = "registered"
    /\ RegistryFree
    /\ task' = [task EXCEPT ![i].pc = IF InRegistry(i) THEN "create" ELSE "none"]
    /\ starting' = [starting EXCEPT ![i] = "spawned"]
    /\ UNCHANGED <<processes, task_handles, pipeline, killing, events, ops,
                   receiver, registry_lock, result, adapter_vars, lock_vars, listener>>

\* spawn_pipeline_execution: the handle is stored; start_pipeline returns.
StartStoreHandle(i) ==
    /\ starting[i] = "spawned"
    /\ task_handles' = task_handles \cup {i}
    /\ starting' = [starting EXCEPT ![i] = "returned"]
    /\ UNCHANGED <<processes, pipeline, killing, task, events, ops,
                   receiver, registry_lock, result, adapter_vars, lock_vars, listener>>

\* A caller holds an id once start_pipeline has returned it.
Known(i) == starting[i] = "returned"

CanCall == ops < MaxOps

\* get_process: a clone of the registered process; nothing is written.
get_process(i) ==
    /\ Known(i)
    /\ CanCall
    /\ RegistryFree
    /\ InRegistry(i)
    /\ ops' = ops + 1
    /\ UNCHANGED <<processes, task_handles, pipeline, starting, killing, task, events,
                   receiver, registry_lock, result, adapter_vars, lock_vars, listener>>

pause_process_by_id(i) ==
    /\ Known(i)
    /\ CanCall
    /\ RegistryFree
    /\ InRegistry(i)
    /\ LET r == pause_process(processes[i])
       IN /\ processes' = [processes EXCEPT ![i] = r.process]
          /\ Emit(i, "manager", r.sent)
    /\ ops' = ops + 1
    /\ result' = "Ok"
    /\ UNCHANGED <<task_handles, pipeline, starting, killing, task,
                   receiver, registry_lock, adapter_vars, lock_vars, listener>>

resume_process_by_id(i) ==
    /\ Known(i)
    /\ CanCall
    /\ RegistryFree
    /\ InRegistry(i)
    /\ LET r == resume_process(processes[i])
       IN /\ processes' = [processes EXCEPT ![i] = r.process]
          /\ Emit(i, "manager", r.sent)
    /\ ops' = ops + 1
    /\ result' = "Ok"
    /\ UNCHANGED <<task_handles, pipeline, starting, killing, task,
                   receiver, registry_lock, adapter_vars, lock_vars, listener>>

\* Mutant: the kill aborts every task that has a handle, not only its own.
KillAbortAll(i) ==
    /\ Known(i)
    /\ CanCall
    /\ ~killing[i]
    /\ task_handles' = {}
    /\ task' = [k \in DOMAIN task |->
                   [task[k] EXCEPT !.abort = @ \/ (k \in task_handles)]]
    /\ killing' = [killing EXCEPT ![i] = TRUE]
    /\ ops' = ops + 1
    /\ UNCHANGED <<processes, pipeline, starting, events, receiver, registry_lock,
                   result, adapter_vars, lock_vars, listener>>

\* kill_process, step 1: remove the handle and abort it.
KillAbort(i) ==
    /\ Known(i)
    /\ CanCall
    /\ ~killing[i]
    /\ task_handles' = task_handles \ {i}
    /\ task' = [task EXCEPT ![i].abort = @ \/ (i \in task_handles)]
    /\ killing' = [killing EXCEPT ![i] = TRUE]
    /\ ops' = ops + 1
    /\ UNCHANGED <<processes, pipeline, starting, events, receiver, registry_lock,
                   result, adapter_vars, lock_vars, listener>>

\* Mutant: the kill takes the process out of the registry.
KillMarkRemoves(i) ==
    /\ killing[i]
    /\ RegistryFree
    /\ InRegistry(i)
    /\ processes' = [processes EXCEPT ![i] = NoProc]
    /\ Emit(i, "manager", kill_process_state(processes[i]).sent)
    /\ killing' = [killing EXCEPT ![i] = FALSE]
    /\ result' = "Ok"
    /\ UNCHANGED <<task_handles, pipeline, starting, task, ops,
                   receiver, registry_lock, adapter_vars, lock_vars, listener>>

\* kill_process, step 2: kill_process_state on the registered process.
KillMark(i) ==
    /\ killing[i]
    /\ RegistryFree
    /\ InRegistry(i)
    /\ LET r == kill_process_state(processes[i])
       IN /\ processes' = [processes EXCEPT ![i] = r.process]
          /\ Emit(i, "manager", r.sent)
    /\ killing' = [killing EXCEPT ![i] = FALSE]
    /\ result' = "Ok"
    /\ UNCHANGED <<task_handles, pipeline, starting, task, ops,
                   receiver, registry_lock, adapter_vars, lock_vars, listener>>

Ids == DOMAIN processes

Next ==
    \/ \E i \in Ids, p \in Pipelines : StartRegister(i, p)
    \/ \E i \in Ids : StartSpawn(i)
    \/ \E i \in Ids : StartStoreHandle(i)
    \/ \E i \in Ids : get_process(i)
    \/ \E i \in Ids : pause_process_by_id(i)
    \/ \E i \in Ids : resume_process_by_id(i)
    \/ \E i \in Ids : KillAbort(i)
    \/ \E i \in Ids : KillMark(i)
    \/ \E i \in Ids : EngineCreate(i)
    \/ \E i \in Ids : EngineStart(i)
    \/ \E i \in Ids : EngineAgentStep(i)
    \/ \E i \in Ids : EngineExecute(i)
    \/ \E i \in Ids : EnginePump(i)
    \/ \E i \in Ids : EngineAgentDone(i)
    \/ \E i \in Ids : EngineFailStatus(i)
    \/ \E i \in Ids : EngineFailError(i)
    \/ \E i \in Ids : EngineHumanReviewStep(i)
    \/ \E i \in Ids : EngineReview(i)
    \/ \E i \in Ids : EngineCompleteStatus(i)
    \/ \E i \in Ids : EngineCompleteEvent(i)
    \/ \E i \in Ids : TaskUpdate(i)
    \/ \E i \in Ids : TaskFailure(i)
    \/ \E i \in Ids : TaskCleanup(i)
    \/ \E i \in Ids : TaskTeardown(i)

Spec == Init /\ [][Next]_vars

\* ------------------------------------------------- two concurrent pipelines
\* Two start_pipeline calls, with get_process and kill_process calls on one of
\* the two processes (the two are interchangeable) while the other one runs.
\* Both pipelines are the shortest with a step: one checkpoint.
TwoIds == {1, 2}

Called == {1}

Pipelines2 == {<<HumanReviewStep>>}

Init2 == InitOver(TwoIds)

Next2 ==
    \/ \E i \in Ids, p \in Pipelines2 : StartRegister(i, p)
    \/ \E i \in Ids : StartSpawn(i)
    \/ \E i \in Ids : StartStoreHandle(i)
    \/ \E i \in Called : get_process(i)
    \/ \E i \in Called : KillAbort(i)
    \/ \E i \in Called : KillMark(i)
    \/ \E i \in Ids : EngineCreate(i)
    \/ \E i \in Ids : EngineStart(i)
    \/ \E i \in Ids : EngineHumanReviewStep(i)
    \/ \E i \in Ids : EngineReview(i)
    \/ \E i \in Ids : TaskUpdate(i)
    \/ \E i \in Ids : TaskCleanup(i)
    \/ \E i \in Ids : TaskTeardown(i)

Spec2 == Init2 /\ [][Next2]_vars

\* --------------------------------------------- one pipeline with a checkpoint
\* The pipeline [Agent a, HumanReview, Agent b] with succeeding agents, started
\* once, with resume calls.
ReviewPipeline == <<AgentStep("agent1"), HumanReviewStep, AgentStep("agent1")>>

NextReview ==
    \/ \E i \in Ids : StartRegister(i, ReviewPipeline)
    \/ \E i \in Ids : StartSpawn(i)
    \/ \E i \in Ids : StartStoreHandle(i)
    \/ \E i \in Ids : resume_process_by_id(i)
    \/ \E i \in Ids : EngineCreate(i)
    \/ \E i \in Ids : EngineStart(i)
    \/ \E i \in Ids : EngineAgentStep(i)
    \/ \E i \in Ids : EngineExecute(i)
    \/ \E i \in Ids : EnginePump(i)
    \/ \E i \in Ids : EngineAgentDone(i)
    \/ \E i \in Ids : EngineHumanReviewStep(i)
    \/ \E i \in Ids : EngineReview(i)
    \/ \E i \in Ids : TaskUpdate(i)
    \/ \E i \in Ids : TaskCleanup(i)

SpecReview == Init /\ [][NextReview]_vars

\* ------------------------------------------------- the locks of one call
\* pause_process_by_id in two steps.  First: self.processes.lock(), the lock
\* of the process, and pause_process up to its send: the status is Paused and
\* the call waits at events_tx.send(..).await holding both guards.
PauseLock(i) ==
    /\ Known(i)
    /\ CanCall
    /\ RegistryFree
    /\ InRegistry(i)
    /\ registry_lock' = i
    /\ processes' = [processes EXCEPT ![i] = pause_process(processes[i]).process]
    /\ ops' = ops + 1
    /\ UNCHANGED <<task_handles, pipeline, starting, killing, task, events, receiver,
                   result, adapter_vars, lock_vars, listener>>

\* Second: the send returns, the call returns and drops its guards.
PauseSend(i) ==
    /\ registry_lock = i
    /\ Emit(i, "manager", <<ProcessStatusUpdate(processes[i])>>)
    /\ registry_lock' = 0
    /\ result' = "Ok"
    /\ UNCHANGED <<processes, task_handles, pipeline, starting, killing, task, ops,
                   receiver, adapter_vars, lock_vars, listener>>

\* Two started pipelines; pause calls on one, get_process calls on either.
NextLock ==
    \/ \E i \in Ids, p \in Pipelines2 : StartRegister(i, p)
    \/ \E i \in Ids : StartSpawn(i)
    \/ \E i \in Ids : StartStoreHandle(i)
    \/ \E i \in Called : PauseLock(i)
    \/ \E i \in Called : PauseSend(i)
    \/ \E i \in Ids : get_process(i)
    \/ \E i \in Ids : EngineCreate(i)
    \/ \E i \in Ids : EngineStart(i)
    \/ \E i \in Ids : EngineHumanReviewStep(i)
    \/ \E i \in Ids : EngineReview(i)
    \/ \E i \in Ids : TaskUpdate(i)
    \/ \E i \in Ids : TaskCleanup(i)

SpecLock == Init2 /\ [][NextLock]_vars

\* ------------------------------------------------ the listener goes away
\* The holder of the Receiver drops it; every later send returns Err.
DropReceiver ==
    /\ receiver
    /\ receiver' = FALSE
    /\ UNCHANGED <<processes, task_handles, pipeline, starting, killing, task, events,
                   ops, registry_lock, result, adapter_vars, lock_vars, listener>>

\* One started pipeline whose listener may go away at any moment.
NextDrop ==
    \/ DropReceiver
    \/ \E i \in Ids, p \in Pipelines : StartRegister(i, p)
    \/ \E i \in Ids : StartSpawn(i)
    \/ \E i \in Ids : StartStoreHandle(i)
    \/ \E i \in Ids : EngineCreate(i)
    \/ \E i \in Ids : EngineStart(i)
    \/ \E i \in Ids : EngineAgentStep(i)
    \/ \E i \in Ids : EngineExecute(i)
    \/ \E i \in Ids : EnginePump(i)
    \/ \E i \in Ids : EngineAgentDone(i)
    \/ \E i \in Ids : EngineFailStatus(i)
    \/ \E i \in Ids : EngineFailError(i)
    \/ \E i \in Ids : EngineHumanReviewStep(i)
    \/ \E i \in Ids : EngineReview(i)
    \/ \E i \in Ids : EngineCompleteStatus(i)
    \/ \E i \in Ids : EngineCompleteEvent(i)
    \/ \E i \in Ids : TaskUpdate(i)
    \/ \E i \in Ids : TaskFailure(i)
    \/ \E i \in Ids : TaskCleanup(i)

SpecDrop == Init /\ [][NextDrop]_vars

\* --------------------------------------------- calls with an unknown id
\* pause_process_by_id, the else branch: processes.get(&process_id) is None.
pause_not_found(u) ==
    /\ CanCall
    /\ RegistryFree
    /\ ~InRegistry(u)
    /\ ops' = ops + 1
    /\ result' = "NotFound"
    /\ UNCHANGED <<processes, task_handles, pipeline, starting, killing, task, events,
                   receiver, registry_lock, adapter_vars, lock_vars, listener>>

\* resume_process_by_id, the else branch.
resume_not_found(u) ==
    /\ CanCall
    /\ RegistryFree
    /\ ~InRegistry(u)
    /\ ops' = ops + 1
    /\ result' = "NotFound"
    /\ UNCHANGED <<processes, task_handles, pipeline, starting, killing, task, events,
                   receiver, registry_lock, adapter_vars, lock_vars, listener>>

\* Mutant: step 1 of the kill drains task_handles and aborts every task.
KillAbortUnknownAll(u) ==
    /\ ~InRegistry(u)
    /\ CanCall
    /\ ~killing[u]
    /\ task_handles' = {}
    /\ task' = [k \in DOMAIN task |->
                   [task[k] EXCEPT !.abort = @ \/ (k \in task_handles)]]
    /\ killing' = [killing EXCEPT ![u] = TRUE]
    /\ ops' = ops + 1
    /\ UNCHANGED <<processes, pipeline, starting, events, receiver, registry_lock,
                   result, adapter_vars, lock_vars, listener>>

\* kill_process, step 1, with an id that is not in the registry:
\* task_handles.remove(&process_id) and the abort of what it returns.
KillAbortUnknown(u) ==
    /\ ~InRegistry(u)
    /\ CanCall
    /\ ~killing[u]
    /\ task_handles' = task_handles \ {u}
    /\ task' = [task EXCEPT ![u].abort = @ \/ (u \in task_handles)]
    /\ killing' = [killing EXCEPT ![u] = TRUE]
    /\ ops' = ops + 1
    /\ UNCHANGED <<processes, pipeline, starting, events, receiver, registry_lock,
                   result, adapter_vars, lock_vars, listener>>

\* kill_process, step 2, the else branch.
KillNotFound(u) ==
    /\ killing[u]
    /\ RegistryFree
    /\ ~InRegistry(u)
    /\ killing' = [killing EXCEPT ![u] = FALSE]
    /\ result' = "NotFound"
    /\ UNCHANGED <<processes, task_handles, pipeline, starting, task, events, ops,
                   receiver, registry_lock, adapter_vars, lock_vars, listener>>

\* Ids no start_pipeline call has returned or will return.
Unknown == {2}

\* One started pipeline (id 1), with kill calls on it, and pause, resume and
\* kill calls made with an id of Unknown.
NextUnknown ==
    \/ \E i \in Called, p \in Pipelines2 : StartRegister(i, p)
    \/ \E i \in Called : StartSpawn(i)
    \/ \E i \in Called : StartStoreHandle(i)
    \/ \E i \in Called : KillAbort(i)
    \/ \E i \in Called : KillMark(i)
    \/ \E u \in Unknown : pause_not_found(u)
    \/ \E u \in Unknown : resume_not_found(u)
    \/ \E u \in Unknown : KillAbortUnknown(u)
    \/ \E u \in Unknown : KillNotFound(u)
    \/ \E i \in Called : EngineCreate(i)
    \/ \E i \in Called : EngineStart(i)
    \/ \E i \in Called : EngineHumanReviewStep(i)
    \/ \E i \in Called : EngineReview(i)
    \/ \E i \in Called : TaskUpdate(i)
    \/ \E i \in Called : TaskCleanup(i)
    \/ \E i \in Called : TaskTeardown(i)

SpecUnknown == Init2 /\ [][NextUnknown]_vars

\* ------------------------------------------------- AgentManager::execute
\* Names an AgentManager is asked for, and the fallback names it may be given.
ManagerNames == {"primary", "fallback", "other"}

\* What agents holds under a name: nothing, or one of the MockAgent
\* constructors (success, unavailable, failing).
NoAgent == "none"

MockAgents == {"success", "unavailable", "failing"}

\* MockAgent::check_availability: self.available.
check_availability(agent) == agent \in {"success", "failing"}

\* MockAgent.events.
MockEvents(agent) ==
    IF agent = "success" THEN SuccessStream
    ELSE IF agent = "failing" THEN FailingStream
    ELSE <<>>

\* The Result of an execute call.  by (the name of the agent whose execute
\* made it) and consulted (the names check_availability was called for) are
\* not part of the Result: they record how it came about.
ExecuteOk(name, evs, consulted) ==
    [ok |-> TRUE, error |-> "-", message |-> "-", stream |-> evs, by |-> name,
     consulted |-> consulted]

ExecuteErr(error, message, name, consulted) ==
    [ok |-> FALSE, error |-> error, message |-> message, stream |-> <<>>,
     by |-> name, consulted |-> consulted]

\* MockAgent::execute.
MockExecute(name, agent, consulted) ==
    IF ~check_availability(agent)
    THEN ExecuteErr("NotAvailable", "Mock agent not available", name, consulted)
    ELSE ExecuteOk(name, MockEvents(agent), consulted)

\* AgentManager::get_agent.
get_agent(ags, name) == IF name \in DOMAIN ags THEN ags[name] ELSE NoAgent

\* Mutant: the fallback is tried for a name that is not registered too.
execute_falls_back_always(ags, fb, agent_name) ==
    IF get_agent(ags, agent_name) # NoAgent
           /\ check_availability(get_agent(ags, agent_name))
    THEN MockExecute(agent_name, get_agent(ags, agent_name), {agent_name})
    ELSE IF /\ fb # "None"
            /\ fb # agent_name
            /\ get_agent(ags, fb) # NoAgent
            /\ check_availability(get_agent(ags, fb))
    THEN MockExecute(fb, get_agent(ags, fb), {agent_name, fb})
    ELSE IF get_agent(ags, agent_name) # NoAgent
    THEN ExecuteErr("NotAvailable", "is not available and no fallback succeeded",
                    "-", {agent_name})
    ELSE ExecuteErr("NotAvailable", "not found in registry", "-", {})

\* AgentManager::execute.
execute(ags, fb, agent_name) ==
    IF get_agent(ags, agent_name) # NoAgent
    THEN IF check_availability(get_agent(ags, agent_name))
         THEN MockExecute(agent_name, get_agent(ags, agent_name), {agent_name})
         ELSE IF /\ fb # "None"
                 /\ fb # agent_name
                 /\ get_agent(ags, fb) # NoAgent
                 /\ check_availability(get_agent(ags, fb))
         THEN MockExecute(fb, get_agent(ags, fb), {agent_name, fb})
         ELSE ExecuteErr("NotAvailable",
                         "is not available and no fallback succeeded", "-",
                         IF fb # "None" /\ fb # agent_name
                                /\ get_agent(ags, fb) # NoAgent
                         THEN {agent_name, fb} ELSE {agent_name})
    ELSE ExecuteErr("NotAvailable", "not found in registry", "-", {})

\* AgentManager::new and with_fallback: any agents under the names, any
\* fallback name or none.
InitExecute ==
    /\ StateManagerNew(ProcIds)
    /\ agents \in [ManagerNames -> MockAgents \cup {NoAgent}]
    /\ fallback_agent_name \in ManagerNames \cup {"None"}
    /\ executed = NoCall
    /\ child_stdout = <<>>
    /\ adapter_stream = NoStream
    /\ agents_md = Absent
    /\ ensuring = <<>>

\* A call of execute with some agent name.
Execute(name) ==
    /\ executed' = [agent_name |-> name,
                    result |-> execute(agents, fallback_agent_name, name)]
    /\ UNCHANGED <<supervisor_vars, agents, fallback_agent_name, child_stdout,
                   adapter_stream, agents_md, ensuring>>

NextExecute == \E name \in ManagerNames : Execute(name)

SpecExecute == InitExecute /\ [][NextExecute]_vars

\* ------------------------------------------- adapter streams over stdout
\* What a line of the subprocess's stdout is to the adapter that reads it:
\*   blank       line.trim().is_empty()
\*   event       JSON of the adapter's schema that converts to an AgentEvent
\*   ignored     JSON of the adapter's schema that converts to nothing
\*   bad_schema  JSON that does not deserialize as the adapter's message type
\*   garbage     text that is not JSON
\*   non_utf8    bytes that are not UTF-8: reading the line returns Err
LineKinds == {"blank", "event", "ignored", "bad_schema", "garbage", "non_utf8"}

Outputs == UNION {[1..n -> LineKinds] : n \in 0..MaxLines}

\* Claude, Cursor, Gemini and Codex wrap stdout in a LinesStream and map
\* every line; Qwen and CliExecutor loop over lines.next_line().
LinesAdapters == {"claude", "cursor", "gemini", "codex"}

Adapters == LinesAdapters \cup {"qwen"}

Executors == Adapters \cup {"cli"}

\* serde_json::from_str::<serde_json::Value>(&line).is_ok()
IsJson(line) == line \in {"event", "ignored", "bad_schema"}

\* serde_json::from_str::<Message>(&line) for the adapter's message type; for
\* Qwen, from_str::<Value> and then from_value::<Notification>.
ParsesAsMessage(line) == line \in {"event", "ignored"}

Item(type, k, value) == [type |-> type, line |-> k, value |-> value]

Yield(item) == [adapter_stream EXCEPT !.pos = @ + 1, !.items = Append(@, item)]

Skip == [adapter_stream EXCEPT !.pos = @ + 1]

\* The line the next read returns.
NextLine == child_stdout[adapter_stream.pos + 1]

HasLine == adapter_stream.pos < Len(child_stdout)

\* next_line returns Ok(None), stdout being closed, or Err.
ReadEnds == IF HasLine THEN NextLine = "non_utf8" ELSE TRUE

Reading(as) ==
    /\ adapter_stream.adapter \in as
    /\ adapter_stream.spawned
    /\ ~adapter_stream.done

\* execute has spawned the subprocess and returned the stream; stdout is what
\* the subprocess will write.  CliExecutor spawns inside the stream, and the
\* spawn may fail.
InitStream ==
    /\ StateManagerNew(ProcIds)
    /\ agents = <<>>
    /\ fallback_agent_name = "None"
    /\ executed = NoCall
    /\ child_stdout \in Outputs
    /\ \E a \in Executors, ok \in BOOLEAN :
          /\ a # "cli" => ok
          /\ ~ok => child_stdout = <<>>
          /\ adapter_stream = [adapter |-> a, spawned |-> ok, pos |-> 0,
                               items |-> <<>>, done |-> FALSE]
    /\ agents_md = Absent
    /\ ensuring = <<>>

\* One item of lines_stream through the closure of filter_map / then.
LinesNext ==
    /\ Reading(LinesAdapters)
    /\ HasLine
    /\ adapter_stream' =
          IF NextLine = "non_utf8"
          THEN Yield(Item("StreamParseError", adapter_stream.pos + 1, "read"))
          ELSE IF NextLine = "blank" THEN Skip
          ELSE IF ParsesAsMessage(NextLine)
          THEN IF NextLine = "event"
               THEN Yield(Item("Ok", adapter_stream.pos + 1, NextLine))
               ELSE Skip
          ELSE Yield(Item("StreamParseError", adapter_stream.pos + 1, NextLine))
    /\ UNCHANGED <<supervisor_vars, agents, fallback_agent_name, executed,
                   child_stdout, agents_md, ensuring>>

\* lines_stream is exhausted: stdout is closed.
LinesEnd ==
    /\ Reading(LinesAdapters)
    /\ ~HasLine
    /\ adapter_stream' = [adapter_stream EXCEPT !.done = TRUE]
    /\ UNCHANGED <<supervisor_vars, agents, fallback_agent_name, executed,
                   child_stdout, agents_md, ensuring>>

\* create_notification_stream: one turn of the while-let loop.
QwenNext ==
    /\ Reading({"qwen"})
    /\ HasLine
    /\ NextLine # "non_utf8"
    /\ adapter_stream' =
          IF NextLine = "event"
          THEN Yield(Item("Ok", adapter_stream.pos + 1, NextLine))
          ELSE Skip
    /\ UNCHANGED <<supervisor_vars, agents, fallback_agent_name, executed,
                   child_stdout, agents_md, ensuring>>

\* Mutant: the stream ends without the synthetic Completed.
QwenEndSilent ==
    /\ Reading({"qwen"})
    /\ ReadEnds
    /\ adapter_stream' = [adapter_stream EXCEPT !.done = TRUE]
    /\ UNCHANGED <<supervisor_vars, agents, fallback_agent_name, executed,
                   child_stdout, agents_md, ensuring>>

\* create_notification_stream: next_line returns Ok(None) or Err, the loop
\* ends and the stream yields Completed.
QwenEnd ==
    /\ Reading({"qwen"})
    /\ ReadEnds
    /\ adapter_stream' = [adapter_stream EXCEPT
                              !.items = Append(@, Item("Completed", 0, "-")),
                              !.done = TRUE]
    /\ UNCHANGED <<supervisor_vars, agents, fallback_agent_name, executed,
                   child_stdout, agents_md, ensuring>>

\* CliExecutor::execute: cmd.spawn() fails; one ExecutionError, then the end.
CliSpawnFails ==
    /\ adapter_stream.adapter = "cli"
    /\ ~adapter_stream.spawned
    /\ ~adapter_stream.done
    /\ adapter_stream' = [adapter_stream EXCEPT
                              !.items = Append(@, Item("ExecutionError", 0, "-")),
                              !.done = TRUE]
    /\ UNCHANGED <<supervisor_vars, agents, fallback_agent_name, executed,
                   child_stdout, agents_md, ensuring>>

\* CliExecutor::execute: one turn of the while-let loop.
CliNext ==
    /\ Reading({"cli"})
    /\ HasLine
    /\ NextLine # "non_utf8"
    /\ adapter_stream' =
          IF NextLine = "blank" THEN Skip
          ELSE IF IsJson(NextLine)
          THEN Yield(Item("Ok", adapter_stream.pos + 1, NextLine))
          ELSE Yield(Item("StreamParseError", adapter_stream.pos + 1, NextLine))
    /\ UNCHANGED <<supervisor_vars, agents, fallback_agent_name, executed,
                   child_stdout, agents_md, ensuring>>

\* CliExecutor::execute: next_line returns Ok(None) or Err, the loop ends and
\* the stream waits for the child and ends.
CliEnd ==
    /\ Reading({"cli"})
    /\ ReadEnds
    /\ adapter_stream' = [adapter_stream EXCEPT !.done = TRUE]
    /\ UNCHANGED <<supervisor_vars, agents, fallback_agent_name, executed,
                   child_stdout, agents_md, ensuring>>

NextStream ==
    \/ LinesNext
    \/ LinesEnd
    \/ QwenNext
    \/ QwenEnd
    \/ CliSpawnFails
    \/ CliNext
    \/ CliEnd

SpecStream == InitStream /\ [][NextStream]_vars

\* The consumer of a stream keeps polling it.
SpecStreamPolled == SpecStream /\ WF_vars(NextStream)

\* ------------------------------------------------ AGENTS.md in the project
\* Concurrent execute calls of Codex and Cursor adapters on one project.
Invocations == 1..MaxInvocations

\* Codex and Cursor both keep their system prompt in AGENTS.md.
AgentsMdAdapters == {"codex", "cursor"}

\* self.system_prompt of the adapter: each agent has its own.
SystemPrompt(adapter) == <<"system prompt of ", adapter>>

\* The project root before any execute: without AGENTS.md, or with one the
\* user wrote.
InitFiles ==
    /\ StateManagerNew(ProcIds)
    /\ agents = <<>>
    /\ fallback_agent_name = "None"
    /\ executed = NoCall
    /\ child_stdout = <<>>
    /\ adapter_stream = NoStream
    /\ agents_md \in {Absent, <<"written by the user">>}
    /\ ensuring = [k \in Invocations |-> NotEnsuring]

\* ensure_agent_md of adapter a, up to the exists check: return Ok if the
\* file exists, go on to write it if not.
EnsureExists(k, a) ==
    /\ ensuring[k].pc \in {"idle", "done"}
    /\ ensuring' = [ensuring EXCEPT
                        ![k] = [pc |-> IF agents_md # Absent THEN "done" ELSE "write",
                                adapter |-> a]]
    /\ UNCHANGED <<supervisor_vars, agents, fallback_agent_name, executed,
                   child_stdout, adapter_stream, agents_md>>

\* ensure_agent_md: fs::write(&agent_md_path, &self.system_prompt).
EnsureWrite(k) ==
    /\ ensuring[k].pc = "write"
    /\ agents_md' = SystemPrompt(ensuring[k].adapter)
    /\ ensuring' = [ensuring EXCEPT ![k].pc = "done"]
    /\ UNCHANGED <<supervisor_vars, agents, fallback_agent_name, executed,
                   child_stdout, adapter_stream>>

NextFiles ==
    \/ \E k \in Invocations, a \in AgentsMdAdapters : EnsureExists(k, a)
    \/ \E k \in Invocations : EnsureWrite(k)

SpecFiles == InitFiles /\ [][NextFiles]_vars

\* ------------------------------------------------------------ the listener
\* Mutant: the channel hands over any event that is waiting, not the oldest.
ReceiveAny ==
    /\ receiver
    /\ \E k \in 1..Len(events) :
          /\ \A n \in 1..Len(listener) : listener[n] # k
          /\ listener' = Append(listener, k)
    /\ UNCHANGED <<processes, task_handles, pipeline, starting, killing, task, events,
                   ops, receiver, registry_lock, result, adapter_vars, lock_vars>>

\* rx.recv().await: the holder of the Receiver gets the oldest event of the
\* channel it has not got yet.
Receive ==
    /\ receiver
    /\ Len(listener) < Len(events)
    /\ listener' = Append(listener, Len(listener) + 1)
    /\ UNCHANGED <<processes, task_handles, pipeline, starting, killing, task, events,
                   ops, receiver, registry_lock, result, adapter_vars, lock_vars>>

\* Two started pipelines with one pause call on one of them, and a listener.
NextListen ==
    \/ Receive
    \/ \E i \in Ids, p \in Pipelines2 : StartRegister(i, p)
    \/ \E i \in Ids : StartSpawn(i)
    \/ \E i \in Ids : StartStoreHandle(i)
    \/ \E i \in Called : ops = 0 /\ pause_process_by_id(i)
    \/ \E i \in Ids : EngineCreate(i)
    \/ \E i \in Ids : EngineStart(i)
    \/ \E i \in Ids : EngineHumanReviewStep(i)
    \/ \E i \in Ids : EngineReview(i)
    \/ \E i \in Ids : TaskUpdate(i)
    \/ \E i \in Ids : TaskCleanup(i)

SpecListen == Init2 /\ [][NextListen]_vars

\* ------------------------------------------- the locks of concurrent calls
\* The StateManager calls step by step, with the guards they hold at each
\* await: the registry mutex (registry_lock), the mutex of each Process
\* (process_lock) and the bounded events channel (mpsc::channel(100) in the
\* binaries; ChannelCapacity here).  The task_handles mutex is locked and
\* dropped with no await in between (kill_process, spawn_pipeline_execution,
\* the end of the task), so a step that takes it is one atomic step.
ChannelCapacity == 1

\* events_tx.send(..).await returns once the channel has a free slot.
HasRoom == Len(events) - Len(listener) < ChannelCapacity

\* Who holds a mutex: a caller c is c itself, start_pipeline for key i and the
\* task of key i are these.
StarterThread(i) == 10 + i

TaskThread(i) == 20 + i

CallOps == {"pause_process_by_id", "resume_process_by_id", "kill_process",
            "get_process", "get_all_processes"}

Reads == {"get_process", "get_all_processes"}

\* What pause_process / resume_process / kill_process_state do to process p.
CallEffect(op, p) ==
    IF op = "pause_process_by_id" THEN pause_process(p)
    ELSE IF op = "resume_process_by_id" THEN resume_process(p)
    ELSE kill_process_state(p)

\* A caller makes a call on an id start_pipeline has returned to it;
\* get_all_processes takes no id.
CallBegin(c, op, i) ==
    /\ calls[c].pc = "idle"
    /\ IF op = "get_all_processes" THEN TRUE ELSE Known(i)
    /\ calls' = [calls EXCEPT ![c] =
                    [op |-> op, id |-> i,
                     pc |-> IF op = "kill_process" THEN "handles" ELSE "registry"]]
    /\ UNCHANGED <<processes, task_handles, pipeline, starting, killing, task, events,
                   ops, receiver, registry_lock, result, listener, process_lock,
                   adapter_vars>>

\* kill_process, step 1: task_handles.lock(), remove, abort, drop(task_handles).
CallAbort(c) ==
    /\ calls[c].pc = "handles"
    /\ task_handles' = task_handles \ {calls[c].id}
    /\ task' = [task EXCEPT ![calls[c].id].abort = @ \/ (calls[c].id \in task_handles)]
    /\ calls' = [calls EXCEPT ![c].pc = "registry"]
    /\ UNCHANGED <<processes, pipeline, starting, killing, events, ops, receiver,
                   registry_lock, result, listener, process_lock, adapter_vars>>

\* self.processes.lock().await; an id (or a registry) without a process makes
\* the call return at once, dropping the guard.
CallLockRegistry(c) ==
    /\ calls[c].pc = "registry"
    /\ RegistryFree
    /\ IF InRegistry(calls[c].id)
       THEN /\ registry_lock' = c
            /\ calls' = [calls EXCEPT ![c].pc = "process"]
       ELSE /\ registry_lock' = 0
            /\ calls' = [calls EXCEPT ![c].pc = "returned"]
    /\ UNCHANGED <<processes, task_handles, pipeline, starting, killing, task, events,
                   ops, receiver, result, listener, process_lock, adapter_vars>>

\* process_arc.lock().await under the registry guard.  A read clones the
\* process and returns, dropping both guards; pause, resume and kill set the
\* status and go on to their first send holding both.
CallLockProcess(c) ==
    /\ calls[c].pc = "process"
    /\ registry_lock = c
    /\ process_lock[calls[c].id] = 0
    /\ IF calls[c].op \in Reads
       THEN /\ registry_lock' = 0
            /\ calls' = [calls EXCEPT ![c].pc = "returned"]
            /\ UNCHANGED <<processes, process_lock>>
       ELSE /\ process_lock' = [process_lock EXCEPT ![calls[c].id] = c]
            /\ processes' = [processes EXCEPT ![calls[c].id].status =
                                CallEffect(calls[c].op, processes[calls[c].id]).process.status]
            /\ calls' = [calls EXCEPT ![c].pc = "send1"]
            /\ UNCHANGED registry_lock
    /\ UNCHANGED <<task_handles, pipeline, starting, killing, task, events, ops,
                   receiver, result, listener, adapter_vars>>

\* The sends of pause_process / resume_process / kill_process_state, one per
\* step, under both guards; after the last one the call returns and the
\* guards are dropped, the guard of the process first.
CallSend(c) ==
    /\ calls[c].pc \in {"send1", "send2"}
    /\ HasRoom
    /\ LET i == calls[c].id
           r == CallEffect(calls[c].op, processes[i])
           k == IF calls[c].pc = "send1" THEN 1 ELSE 2
       IN /\ Emit(i, "manager", <<r.sent[k]>>)
          /\ IF k < Len(r.sent)
             THEN /\ calls' = [calls EXCEPT ![c].pc = "send2"]
                  /\ UNCHANGED <<processes, registry_lock, process_lock>>
             ELSE /\ calls' = [calls EXCEPT ![c].pc = "returned"]
                  /\ processes' = [processes EXCEPT ![i] = r.process]
                  /\ process_lock' = [process_lock EXCEPT ![i] = 0]
                  /\ registry_lock' = 0
    /\ UNCHANGED <<task_handles, pipeline, starting, killing, task, ops, receiver,
                   result, listener, adapter_vars>>

\* spawn_pipeline_execution: processes.lock().await.
SpawnLockRegistry(i) ==
    /\ starting[i] = "registered"
    /\ RegistryFree
    /\ registry_lock' = StarterThread(i)
    /\ starting' = [starting EXCEPT ![i] = "cloning"]
    /\ UNCHANGED <<processes, task_handles, pipeline, killing, task, events, ops,
                   receiver, result, listener, lock_vars, adapter_vars>>

\* spawn_pipeline_execution: process_arc.lock().await, the clone, both guards
\* dropped, tokio::spawn.
SpawnClone(i) ==
    /\ starting[i] = "cloning"
    /\ process_lock[i] = 0
    /\ registry_lock' = 0
    /\ task' = [task EXCEPT ![i].pc = "create"]
    /\ starting' = [starting EXCEPT ![i] = "spawned"]
    /\ UNCHANGED <<processes, task_handles, pipeline, killing, events, ops,
                   receiver, result, listener, lock_vars, adapter_vars>>

\* update_process_state / handle_pipeline_failure: processes.lock().await.
TaskLockRegistry(i) ==
    /\ task[i].pc \in {"update", "failure"}
    /\ RegistryFree
    /\ registry_lock' = TaskThread(i)
    /\ task' = [task EXCEPT ![i].pc = IF At(i, "update") THEN "update_locked"
                                      ELSE "failure_locked"]
    /\ UNCHANGED <<processes, task_handles, pipeline, starting, killing, events, ops,
                   receiver, result, listener, lock_vars, adapter_vars>>

\* update_process_state / handle_pipeline_failure: process_arc.lock().await,
\* the write, both guards dropped.
TaskWrite(i) ==
    /\ task[i].pc \in {"update_locked", "failure_locked"}
    /\ process_lock[i] = 0
    /\ processes' = IF At(i, "update_locked")
                    THEN update_process_state(processes, i, task[i].process)
                    ELSE handle_pipeline_failure(processes, i, "Agent error")
    /\ registry_lock' = 0
    /\ task' = [task EXCEPT ![i].pc = "cleanup"]
    /\ UNCHANGED <<task_handles, pipeline, starting, killing, events, ops,
                   receiver, result, listener, lock_vars, adapter_vars>>

\* Mutant: an aborted task is stopped like a thread: what it holds stays held.
TaskDroppedKeepsGuards(i) ==
    /\ TaskLive(i)
    /\ task[i].abort
    /\ task' = [task EXCEPT ![i].pc = "aborted"]
    /\ UNCHANGED <<processes, task_handles, pipeline, starting, killing, events, ops,
                   receiver, registry_lock, result, listener, lock_vars, adapter_vars>>

\* An aborted task is dropped at an await at which it yields: its future is
\* dropped and with it the guards it holds.
TaskDropped(i) ==
    /\ TaskLive(i)
    /\ task[i].abort
    /\ task' = [task EXCEPT ![i].pc = "aborted"]
    /\ registry_lock' = IF registry_lock = TaskThread(i) THEN 0 ELSE registry_lock
    /\ UNCHANGED <<processes, task_handles, pipeline, starting, killing, events, ops,
                   receiver, result, listener, lock_vars, adapter_vars>>

\* The steps of the calls caller c has begun.
CallStep(c) ==
    \/ CallAbort(c)
    \/ CallLockRegistry(c)
    \/ CallLockProcess(c)
    \/ CallSend(c)

\* The steps of start_pipeline for key i after its registration, and of the
\* task it spawns; every send waits for a free slot of the channel.
RunStep(i) ==
    \/ SpawnLockRegistry(i)
    \/ SpawnClone(i)
    \/ StartStoreHandle(i)
    \/ HasRoom /\ EngineCreate(i)
    \/ HasRoom /\ EngineStart(i)
    \/ HasRoom /\ EngineHumanReviewStep(i)
    \/ HasRoom /\ EngineReview(i)
    \/ HasRoom /\ EngineAgentStep(i)
    \/ EngineExecute(i)
    \/ HasRoom /\ EngineFailStatus(i)
    \/ HasRoom /\ EngineFailError(i)
    \/ TaskLockRegistry(i)
    \/ TaskWrite(i)
    \/ TaskCleanup(i)
    \/ TaskDropped(i)

\* A run that returns Ok (at its checkpoint) and one that returns Err.
PipelinesCalls == {<<HumanReviewStep>>, <<AgentStep("nonexistent-agent")>>}

\* One started pipeline, two callers making one call each, and the listener.
NextCalls ==
    \/ Receive
    \/ \E i \in Ids, p \in PipelinesCalls : StartRegister(i, p)
    \/ \E c \in Callers, op \in CallOps, i \in Ids : CallBegin(c, op, i)
    \/ \E c \in Callers : CallStep(c)
    \/ \E i \in Ids : RunStep(i)

SpecCalls == Init /\ [][NextCalls]_vars

\* The listener keeps consuming (the events forwarder of the TUI, the printer
\* of the headless run), and the runtime keeps polling every call and task
\* that can make a step.
SpecCallsPolled ==
    /\ SpecCalls
    /\ WF_vars(Receive)
    /\ \A c \in Callers : WF_vars(CallStep(c))
    /\ \A i \in ProcIds : WF_vars(RunStep(i))

\* ------------------------------------------------ the pump over any stream
\* The items a stream can carry: Ok(Thought), Ok(ToolCall), Ok(MessageChunk),
\* Ok(Completed) and Err, each with its position in the stream as its text.
ItemKinds == {"Thought", "ToolCall", "MessageChunk", "Completed", "Err"}

AgentStreams ==
    UNION {{[k \in 1..n |-> <<f[k], ToString(k)>>] : f \in [1..n -> ItemKinds]} :
              n \in 0..MaxLines}

\* A pipeline whose first step runs mock-agent, alone or before agent1.
PipelinesPump == {<<AgentStep("mock-agent")>>,
                  <<AgentStep("mock-agent"), AgentStep("agent1")>>}

\* The AgentManager holds a mock-agent with any stream of at most MaxLines
\* items.
InitPump ==
    /\ StateManagerNew(ProcIds)
    /\ agents = <<>>
    /\ fallback_agent_name = "None"
    /\ \E st \in AgentStreams :
          executed = [agent_name |-> "mock-agent",
                      result |-> ExecuteOk("mock-agent", st, {"mock-agent"})]
    /\ child_stdout = <<>>
    /\ adapter_stream = NoStream
    /\ agents_md = Absent
    /\ ensuring = <<>>

NextPump ==
    \/ \E i \in Ids, p \in PipelinesPump : StartRegister(i, p)
    \/ \E i \in Ids : StartSpawn(i)
    \/ \E i \in Ids : StartStoreHandle(i)
    \/ \E i \in Ids : EngineCreate(i)
    \/ \E i \in Ids : EngineStart(i)
    \/ \E i \in Ids : EngineAgentStep(i)
    \/ \E i \in Ids : EngineExecute(i)
    \/ \E i \in Ids : EnginePump(i)
    \/ \E i \in Ids : EngineAgentDone(i)
    \/ \E i \in Ids : EngineFailStatus(i)
    \/ \E i \in Ids : EngineFailError(i)
    \/ \E i \in Ids : EngineCompleteStatus(i)
    \/ \E i \in Ids : EngineCompleteEvent(i)
    \/ \E i \in Ids : TaskUpdate(i)
    \/ \E i \in Ids : TaskFailure(i)
    \/ \E i \in Ids : TaskCleanup(i)

SpecPump == InitPump /\ [][NextPump]_vars

\* ------------------------------------------------------ the headless run
\* run --no-tui: main builds the engine and a bounded channel, spawns the
\* printer task on the Receiver, awaits engine.run with the Sender, then
\* awaits the printer and exits.  There is no StateManager: task is the run
\* main awaits, listener the events the printer has printed, receiver the
\* printer's Receiver.  The run's positions "update" and "failure" are its
\* return with Ok and Err, where its Sender is dropped.
InitHeadless ==
    /\ processes = [i \in ProcIds |-> NoProc]
    /\ task_handles = {}
    /\ pipeline \in [ProcIds -> Pipelines]
    /\ starting = [i \in ProcIds |-> "none"]
    /\ killing = [i \in ProcIds |-> FALSE]
    /\ task = [i \in ProcIds |-> [NoTask EXCEPT !.pc = "create"]]
    /\ events = <<>>
    /\ ops = 0
    /\ receiver = TRUE
    /\ registry_lock = 0
    /\ result = "-"
    /\ listener = <<>>
    /\ process_lock = [i \in ProcIds |-> 0]
    /\ calls = [c \in Callers |-> NoCaller]
    /\ AdaptersIdle

\* The only Sender is gone: engine.run has returned.
SenderDropped == \A i \in Ids : task[i].pc \in {"update", "failure", "done"}

\* Mutant: the printer stops as soon as the Sender is gone, whatever is left
\* in the channel.
PrinterEndsAtOnce ==
    /\ receiver
    /\ SenderDropped
    /\ receiver' = FALSE
    /\ UNCHANGED <<processes, task_handles, pipeline, starting, killing, task, events,
                   ops, registry_lock, result, listener, lock_vars, adapter_vars>>

\* rx.recv() returns None: the channel is empty and its Sender is gone; the
\* while-let loop and the printer task end.
PrinterEnds ==
    /\ receiver
    /\ SenderDropped
    /\ Len(listener) = Len(events)
    /\ receiver' = FALSE
    /\ UNCHANGED <<processes, task_handles, pipeline, starting, killing, task, events,
                   ops, registry_lock, result, listener, lock_vars, adapter_vars>>

\* printer.await returns; main maps the result of the run and returns.
HeadlessExit(i) ==
    /\ task[i].pc \in {"update", "failure"}
    /\ ~receiver
    /\ result' = IF At(i, "update") THEN "Ok" ELSE "Pipeline execution failed"
    /\ task' = [task EXCEPT ![i].pc = "done"]
    /\ UNCHANGED <<processes, task_handles, pipeline, starting, killing, events, ops,
                   receiver, registry_lock, listener, lock_vars, adapter_vars>>

\* The steps of main: the run, every send waiting for a free slot of the
\* channel, and the exit.
MainStep(i) ==
    \/ HasRoom /\ EngineCreate(i)
    \/ HasRoom /\ EngineStart(i)
    \/ HasRoom /\ EngineAgentStep(i)
    \/ EngineExecute(i)
    \/ HasRoom /\ EnginePump(i)
    \/ HasRoom /\ EngineAgentDone(i)
    \/ HasRoom /\ EngineFailStatus(i)
    \/ HasRoom /\ EngineFailError(i)
    \/ HasRoom /\ EngineHumanReviewStep(i)
    \/ HasRoom /\ EngineReview(i)
    \/ HasRoom /\ EngineCompleteStatus(i)
    \/ HasRoom /\ EngineCompleteEvent(i)
    \/ HeadlessExit(i)

\* The steps of the printer task.
PrinterStep == Receive \/ PrinterEnds

NextHeadless == PrinterStep \/ \E i \in Ids : MainStep(i)

SpecHeadless == InitHeadless /\ [][NextHeadless]_vars

\* The runtime keeps polling main and the printer task.
SpecHeadlessPolled ==
    /\ SpecHeadless
    /\ WF_vars(PrinterStep)
    /\ \A i \in ProcIds : WF_vars(MainStep(i))

\* ------------------------------------------------------------ observations
FromRun(e, i) == e.key = i /\ e.src = "run"

FromManager(e, i) == e.key = i /\ e.src = "manager"

\* The events the run of registry key i has sent.
RunEvents(ev, i) == SelectSeq(ev, LAMBDA e : FromRun(e, i))

IsStepBegin(e) ==
    /\ e.type = "ProcessLogChunk"
    /\ e.content[1] \in {"Executing agent: ", "Pausing for human review"}

\* Positions in ev at which the run of i logged the beginning of a step.
StepBeginPositions(ev, i) ==
    {k \in 1..Len(ev) : FromRun(ev[k], i) /\ IsStepBegin(ev[k])}

\* Number of pipeline steps the run of i has begun.
StepsBegun(ev, i) == Cardinality(StepBeginPositions(ev, i))

\* The position at which the n-th step of the run of i began.
StepBeginAt(ev, i, n) ==
    CHOOSE k \in StepBeginPositions(ev, i) :
        Cardinality({j \in StepBeginPositions(ev, i) : j <= k}) = n

\* Events of one type carrying process id pid.
CountOf(ev, type, pid) ==
    Cardinality({k \in 1..Len(ev) : ev[k].type = type /\ ev[k].process_id = pid})

\* Events of one type sent by StateManager calls made with id i.
CallsOf(ev, type, i) ==
    Cardinality({k \in 1..Len(ev) : ev[k].type = type /\ FromManager(ev[k], i)})

IsRunStatus(e, i, status) ==
    /\ e.type = "ProcessStatusUpdate"
    /\ FromRun(e, i)
    /\ e.status = status

\* resume(id) sends ProcessResumed once per call.
IsResume(e, i) == e.type = "ProcessResumed" /\ FromManager(e, i)

IsPause(e, i) ==
    e.type = "ProcessStatusUpdate" /\ FromManager(e, i) /\ e.status = "Paused"

TaskEnded(i) == task[i].pc \in {"done", "aborted"}

\* No start_pipeline or kill_process call is between two of its steps.
NothingInFlight(i) == starting[i] \in {"none", "returned"} /\ ~killing[i]

\* ------------------------------------------------------------------ claims
\* C1: for every pipeline with a HumanReview step, every step after the
\* checkpoint begins only after the run has reported status HumanReview and,
\* after that, resume has been invoked for the process id.
C1_ReviewBlocksLaterSteps ==
    \A i \in Ids :
        \A h \in 1..Len(pipeline[i]) :
            pipeline[i][h].kind = "HumanReview" =>
                \A n \in (h + 1)..StepsBegun(events, i) :
                    \E a, b \in 1..Len(events) :
                        /\ a < b
                        /\ b < StepBeginAt(events, i, n)
                        /\ IsRunStatus(events[a], i, "HumanReview")
                        /\ IsResume(events[b], i)

\* C1 witness: a run has returned at a checkpoint that is followed by a step.
C1_Witness ==
    \E i \in Ids :
        /\ task[i].pc = "done"
        /\ task[i].process.status = "HumanReview"
        /\ task[i].step_index + 1 < Len(pipeline[i])
        /\ \E k \in 1..Len(events) : IsRunStatus(events[k], i, "HumanReview")

\* C2: once resume(id) has been invoked for a run parked at a checkpoint, the
\* run goes through the remaining steps and the process reaches Completed.
\* Stated at the point where nothing more can happen for the process: the
\* task has ended, no call is in flight, and resume was the only control call.
C2_ResumeCompletesRun ==
    \A i \in Ids :
        ( /\ TaskEnded(i)
          /\ NothingInFlight(i)
          /\ \E a, b \in 1..Len(events) :
                /\ a < b
                /\ IsRunStatus(events[a], i, "HumanReview")
                /\ IsResume(events[b], i)
          /\ CallsOf(events, "ProcessKilled", i) = 0
          /\ \A k \in 1..Len(events) : ~IsPause(events[k], i) )
        => /\ processes[i].status = "Completed"
           /\ StepsBegun(events, i) = Len(pipeline[i])

\* A kill_process call returns (its second step is taken) for id i.
KillReturns(i) == killing[i] /\ ~killing'[i]

\* C3: kill(id) on a running process (kill_process found and aborted its
\* task) leaves the process with status Killed and emits exactly one
\* ProcessKilled event for that id.
C3_KillMarksAndEmitsOnce ==
    [][\A i \in Ids :
          (KillReturns(i) /\ task[i].abort) =>
              /\ processes'[i].status = "Killed"
              /\ CountOf(events', "ProcessKilled", i)
                     = CountOf(events, "ProcessKilled", i) + 1]_vars

\* The task wrapper has written into the registered process of i: only
\* update_process_state changes its id, only handle_pipeline_failure its logs.
WrittenBack(i) ==
    \/ processes'[i].id # processes[i].id
    \/ processes'[i].logs # processes[i].logs

\* C4: once kill(id) has aborted the task and returned, the run sends no
\* further event and never writes its result back over the killed process.
C4_NoRunActivityAfterKill ==
    [][\A i \in Ids :
          (task[i].abort /\ ~killing[i]) =>
              /\ RunEvents(events', i) = RunEvents(events, i)
              /\ ~WrittenBack(i)]_vars

\* C5: once the status of a process is Killed, Completed or Failed it never
\* changes again.
C5_TerminalIsFinal ==
    [][\A i \in Ids :
          processes[i].status \in Terminal =>
              processes'[i].status = processes[i].status]_vars

LegalEdges ==
    {<<"Pending", "Running">>, <<"Running", "Completed">>, <<"Running", "Failed">>,
     <<"Running", "Killed">>, <<"Running", "HumanReview">>, <<"Running", "Paused">>,
     <<"HumanReview", "Running">>, <<"Paused", "Running">>}

\* C6: every change of the status of a registered process follows a legal edge
\* of the lifecycle.
C6_OnlyLegalEdges ==
    [][\A i \in Ids :
          (InRegistry(i) /\ processes'[i].status # processes[i].status) =>
              <<processes[i].status, processes'[i].status>> \in LegalEdges]_vars

\* The agent yields an AgentError: from AgentManager::execute or as a stream item.
YieldsError(name) ==
    \/ ~ManagerExecute(name).ok
    \/ \E k \in 1..Len(ManagerExecute(name).stream) :
           ManagerExecute(name).stream[k][1] = "Err"

HasRunEvent(i, type) ==
    \E k \in 1..Len(events) : FromRun(events[k], i) /\ events[k].type = type

HasErrorLog(p) == \E k \in 1..Len(p.logs) : p.logs[k][1] = "Error: "

\* C7: if an agent step yields an AgentError, no later step begins; and once
\* the task has run to its end the run's process is Failed, the run has sent
\* StatusUpdate(Failed) and then ProcessError as its last event, never
\* ProcessCompleted, it has returned Err (the wrapper's "Error" log line), and
\* the registered status is Failed unless a control call was made.
C7_AgentErrorFailsRun ==
    \A i \in Ids :
        \A k \in 1..StepsBegun(events, i) :
            (pipeline[i][k].kind = "Agent" /\ YieldsError(pipeline[i][k].name)) =>
                /\ StepsBegun(events, i) = k
                /\ ~HasRunEvent(i, "ProcessCompleted")
                /\ task[i].pc = "done" =>
                      /\ task[i].process.status = "Failed"
                      /\ \E a \in 1..Len(events) : IsRunStatus(events[a], i, "Failed")
                      /\ LET r == RunEvents(events, i)
                         IN r[Len(r)].type = "ProcessError"
                      /\ HasErrorLog(processes[i])
                      /\ ops = 0 => processes[i].status = "Failed"

\* C7 witness: a run whose first step failed has ended; a second step exists.
C7_Witness ==
    \E i \in Ids :
        /\ task[i].pc = "done"
        /\ Len(pipeline[i]) = 2
        /\ pipeline[i][1].kind = "Agent"
        /\ YieldsError(pipeline[i][1].name)
        /\ processes[i].status = "Failed"
        /\ HasRunEvent(i, "ProcessError")

\* C8: whenever the task of a process has ended and no call is in flight, the
\* registered status is not Running.
C8_NeverStuckRunning ==
    \A i \in Ids :
        (TaskEnded(i) /\ NothingInFlight(i)) => processes[i].status # "Running"

\* C9: a kill of an id that an earlier kill has already marked changes
\* nothing: the process stays as it is and no further event is sent.
C9_SecondKillIsNoOp ==
    [][\A i \in Ids :
          (KillReturns(i) /\ CallsOf(events, "ProcessKilled", i) >= 1) =>
              /\ processes'[i] = processes[i]
              /\ events' = events]_vars

\* pause(id) is called for i in this step.
PauseCalled(i) == CallsOf(events', "ProcessStatusUpdate", i)
                      > CallsOf(events, "ProcessStatusUpdate", i)
                  /\ processes'[i].status = "Paused"

\* C10: pause(id) leaves the status Paused, and while the status is Paused
\* (until resume) the run, having begun a step, begins no later one.
C10_PauseStopsRun ==
    [][\A i \in Ids :
          /\ PauseCalled(i) => processes'[i].status = "Paused"
          /\ (processes[i].status = "Paused" /\ StepsBegun(events, i) >= 1) =>
                 StepsBegun(events', i) = StepsBegun(events, i)]_vars

\* Everything that belongs to process b: its registered state, its task and
\* handle, and the events sent for it or carrying one of its ids.
EventsOf(ev, b) ==
    SelectSeq(ev, LAMBDA e : e.key = b \/ e.process_id \in {b, EngineUuid(b)})

Untouched(b) ==
    /\ processes'[b] = processes[b]
    /\ task'[b] = task[b]
    /\ (b \in task_handles') = (b \in task_handles)
    /\ EventsOf(events', b) = EventsOf(events, b)

\* C11: two started pipelines have distinct process ids, and a get_process or
\* kill_process call on one of them leaves the status, step index, logs,
\* events, task and handle of the other as they were.
C11_ProcessesAreIndependent ==
    [][\A a, b \in Ids :
          a # b =>
              /\ (InRegistry(a) /\ InRegistry(b)) => processes[a].id # processes[b].id
              /\ (get_process(a) \/ KillAbort(a) \/ KillMark(a)) => Untouched(b)]_vars

\* C11 witness: both pipelines were started, one process has been killed
\* while the run of the other went on to its checkpoint and was written back.
C11_Witness ==
    /\ Ids = TwoIds
    /\ Known(1) /\ Known(2)
    /\ processes[1].status = "Killed"
    /\ task[1].abort
    /\ ~task[2].abort
    /\ processes[2].status = "HumanReview"
    /\ 2 \in task_handles

\* A pipeline made only of Agent steps whose agents always succeed.
AllSucceed(p) ==
    \A k \in 1..Len(p) : p[k].kind = "Agent" /\ ~YieldsError(p[k].name)

\* The statuses the run of i has reported, in order.
RunStatuses(ev, i) ==
    LET u == SelectSeq(ev, LAMBDA e : FromRun(e, i) /\ e.type = "ProcessStatusUpdate")
    IN [k \in 1..Len(u) |-> u[k].status]

IsPrefix(a, b) == Len(a) <= Len(b) /\ a = SubSeq(b, 1, Len(a))

\* engine.run has returned Ok or Err: the task is in its wrapper or has ended.
RunReturned(i) == task[i].pc \in {"update", "failure", "cleanup", "done"}

\* The run of an all-succeeding pipeline: Pending until it reports Running,
\* then Running until it reports Completed; once it has returned it is
\* Completed with final step index last and one "Executing agent" line per
\* step in its logs.
SucceedingRun(i, last) ==
    /\ IsPrefix(RunStatuses(events, i), <<"Running", "Completed">>)
    /\ task[i].process # NoProc =>
          task[i].process.status =
              IF RunStatuses(events, i) = <<>> THEN "Pending"
              ELSE RunStatuses(events, i)[Len(RunStatuses(events, i))]
    /\ RunReturned(i) =>
          /\ task[i].process.status = "Completed"
          /\ RunStatuses(events, i) = <<"Running", "Completed">>
          /\ task[i].process.current_step_index = last
          /\ \A k \in 1..Len(pipeline[i]) :
                 \E n \in 1..Len(task[i].process.logs) :
                     task[i].process.logs[n] = <<"Executing agent: ", pipeline[i][k].name>>
          /\ Len(task[i].process.logs) >= Len(pipeline[i])

\* C12 as stated: for every pipeline made only of succeeding Agent steps the
\* run goes Pending, Running, Completed, ends with current_step_index equal
\* to the number of steps minus one, and logs at least one line per step.
C12_AgentOnlyRunAsStated ==
    \A i \in Ids :
        AllSucceed(pipeline[i]) => SucceedingRun(i, Len(pipeline[i]) - 1)

\* C12 amended: the same, with the final current_step_index equal to the
\* number of steps minus one for a pipeline that has a step and 0 for the
\* pipeline without steps.
C12_AgentOnlyRun ==
    \A i \in Ids :
        AllSucceed(pipeline[i]) =>
            SucceedingRun(i, IF Len(pipeline[i]) = 0 THEN 0 ELSE Len(pipeline[i]) - 1)

\* C12 witness: the run of a pipeline of two succeeding agents has returned.
C12_Witness ==
    \E i \in Ids :
        /\ Len(pipeline[i]) = 2
        /\ AllSucceed(pipeline[i])
        /\ task[i].pc = "done"
        /\ task[i].process.status = "Completed"
        /\ task[i].process.current_step_index = 1

\* What an event is, for the order of the events of a process.
TokenOf(e) ==
    IF e.type = "ProcessStatusUpdate" THEN e.status
    ELSE IF e.type = "ProcessLogChunk" THEN "Log"
    ELSE e.type

\* The events sent for registry key i, by its run or by calls made with i.
TokensOf(ev, i) ==
    LET u == SelectSeq(ev, LAMBDA e : e.key = i)
    IN [k \in 1..Len(u) |-> TokenOf(u[k])]

\* ProcessStarted, Running, Log*, HumanReview, Running, ProcessResumed, Log*,
\* Completed, ProcessCompleted.
FullReviewOrder(t) ==
    /\ Len(t) >= 7
    /\ t[1] = "ProcessStarted"
    /\ t[2] = "Running"
    /\ \E h \in 3..(Len(t) - 4) :
          /\ \A k \in 3..(h - 1) : t[k] = "Log"
          /\ t[h] = "HumanReview"
          /\ t[h + 1] = "Running"
          /\ t[h + 2] = "ProcessResumed"
          /\ \A k \in (h + 3)..(Len(t) - 2) : t[k] = "Log"
    /\ t[Len(t) - 1] = "Completed"
    /\ t[Len(t)] = "ProcessCompleted"

\* resume was called once for i, after the run had reported HumanReview.
ResumedOnceAfterPark(i) ==
    /\ CallsOf(events, "ProcessResumed", i) = 1
    /\ \E a, b \in 1..Len(events) :
          /\ a < b
          /\ IsRunStatus(events[a], i, "HumanReview")
          /\ IsResume(events[b], i)

\* C13: for [Agent a, HumanReview, Agent b], once resume has been called after
\* the park and nothing more can happen for the process (its task has ended,
\* no call is in flight), its events are ProcessStarted, Running, log chunks,
\* HumanReview, Running, ProcessResumed, log chunks, Completed,
\* ProcessCompleted, and nothing else.
C13_ReviewEventOrder ==
    \A i \in Ids :
        ( /\ pipeline[i] = ReviewPipeline
          /\ TaskEnded(i)
          /\ NothingInFlight(i)
          /\ ResumedOnceAfterPark(i) )
        => FullReviewOrder(TokensOf(events, i))

\* The event that follows a ProcessStatusUpdate for this status ("-": none).
TerminalEventOf(status) ==
    IF status = "Completed" THEN "ProcessCompleted"
    ELSE IF status = "Failed" THEN "ProcessError"
    ELSE IF status = "Killed" THEN "ProcessKilled"
    ELSE "-"

IsStatusEvent(e, i) == e.type = "ProcessStatusUpdate" /\ e.key = i

\* The latest ProcessStatusUpdate sent for i carries this status, and the
\* terminal event of the status (ProcessResumed for a resume) comes after it.
Announced(ev, i, status, resumed) ==
    \E k \in 1..Len(ev) :
        /\ IsStatusEvent(ev[k], i)
        /\ ev[k].status = status
        /\ \A m \in (k + 1)..Len(ev) : ~IsStatusEvent(ev[m], i)
        /\ TerminalEventOf(status) # "-" =>
               \E m \in (k + 1)..Len(ev) :
                   ev[m].key = i /\ ev[m].type = TerminalEventOf(status)
        /\ resumed =>
               \E m \in (k + 1)..Len(ev) : IsResume(ev[m], i)

\* C14: whenever the status of a registered process changes, the latest
\* ProcessStatusUpdate sent for the process carries the new status, followed
\* by ProcessCompleted, ProcessError or ProcessKilled for a change to
\* Completed, Failed or Killed, and by ProcessResumed for a resume.
C14_StatusChangeIsAnnounced ==
    [][\A i \in Ids :
          (InRegistry(i) /\ processes'[i].status # processes[i].status) =>
              Announced(events', i, processes'[i].status, resume_process_by_id(i))]_vars

\* The process is paused: its registered status or the status of the run's
\* own Process is Paused or HumanReview.
IsPaused(i) ==
    \/ processes[i].status \in {"Paused", "HumanReview"}
    \/ task[i].process.status \in {"Paused", "HumanReview"}

\* C15: within one run current_step_index, in the run's Process and in the
\* registered one, never decreases, and it does not increase in a step taken
\* while the process is paused.
C15_StepIndexMonotone ==
    [][\A i \in Ids :
          /\ task'[i].process.current_step_index >= task[i].process.current_step_index
          /\ processes'[i].current_step_index >= processes[i].current_step_index
          /\ IsPaused(i) =>
                /\ task'[i].process.current_step_index
                       = task[i].process.current_step_index
                /\ processes'[i].current_step_index
                       = processes[i].current_step_index]_vars

\* A run of i is parked at a checkpoint: it has set status HumanReview.
Parked(i) ==
    \/ processes[i].status = "HumanReview"
    \/ task[i].process.status = "HumanReview"

\* C16: a resume(id) call made while no run of the process is parked succeeds
\* and has no effect: the registered process keeps its status and no event is
\* sent.
C16_ResumeWithoutParkHasNoEffect ==
    [][\A i \in Ids :
          (resume_process_by_id(i) /\ ~Parked(i)) =>
              /\ processes'[i].status = processes[i].status
              /\ events' = events]_vars

\* The run as a function of the pipeline, every send delivered: the Process
\* that run ends with.  FirstStop is the stream item that ends the pump.
FirstStop(st) ==
    IF \E k \in 1..Len(st) : st[k][1] \in {"Completed", "Err"}
    THEN CHOOSE k \in 1..Len(st) :
             /\ st[k][1] \in {"Completed", "Err"}
             /\ \A m \in 1..(k - 1) : st[m][1] \notin {"Completed", "Err"}
    ELSE Len(st) + 1

WithLogs(p, lines) == [p EXCEPT !.logs = @ \o lines]

Pumped(p, st) ==
    WithLogs(p, [k \in 1..(FirstStop(st) - 1) |-> LogLineOf(st[k])])

StreamFails(st) == FirstStop(st) <= Len(st) /\ st[FirstStop(st)][1] = "Err"

RECURSIVE RunFrom(_, _, _)
RunFrom(pl, k, p) ==
    IF k > Len(pl) THEN SetStatus(p, "Completed")
    ELSE LET q == IF k > 1 THEN advance_step(p) ELSE p
         IN IF pl[k].kind = "HumanReview"
            THEN SetStatus(WithLogs(q, << <<"Pausing for human review", "">> >>),
                           "HumanReview")
            ELSE LET q1 == WithLogs(q, << <<"Executing agent: ", pl[k].name>> >>)
                     r == ManagerExecute(pl[k].name)
                 IN IF ~r.ok THEN SetStatus(q1, "Failed")
                    ELSE IF StreamFails(r.stream)
                    THEN SetStatus(Pumped(q1, r.stream), "Failed")
                    ELSE RunFrom(pl, k + 1,
                                 WithLogs(Pumped(q1, r.stream),
                                          << <<"Agent completed: ", pl[k].name>> >>))

ReferenceRun(pl, uuid) == RunFrom(pl, 1, SetStatus(create_process(uuid), "Running"))

\* Number of steps the reference run begins.
ReferenceSteps(pl, uuid) ==
    Cardinality({n \in 1..Len(ReferenceRun(pl, uuid).logs) :
        ReferenceRun(pl, uuid).logs[n][1]
            \in {"Executing agent: ", "Pausing for human review"}})

\* C17: whether or not its sends fail because the receiver is gone, a run
\* that has ended has begun every step and built exactly the Process that
\* the run with a live receiver builds, and the registered process has that
\* status; a failed send never turns the run into a failure.
C17_FailedSendIsIgnored ==
    \A i \in Ids :
        task[i].pc = "done" =>
            /\ task[i].process = ReferenceRun(pipeline[i], EngineUuid(i))
            /\ StepsBegun(events, i) = ReferenceSteps(pipeline[i], EngineUuid(i))
            /\ processes[i].status = ReferenceRun(pipeline[i], EngineUuid(i)).status

\* C17 witness: the receiver was dropped before the run sent anything, and the
\* run of a two-step pipeline has ended Completed.
C17_Witness ==
    \E i \in Ids :
        /\ ~receiver
        /\ task[i].pc = "done"
        /\ Len(pipeline[i]) = 2
        /\ task[i].process.status = "Completed"
        /\ \A k \in 1..Len(events) : ~events[k].delivered
        /\ StepsBegun(events, i) = 2

\* C18: while a call on process a is in progress, waiting to send its event,
\* a get_process call on another process b and the write-back of the task of
\* b can proceed.
C18_OtherProcessNotBlocked ==
    \A a, b \in Ids :
        (a # b /\ registry_lock = a) =>
            /\ (Known(b) /\ InRegistry(b) /\ CanCall) => ENABLED get_process(b)
            /\ At(b, "update") => ENABLED TaskUpdate(b)

\* C19: once the task of a process has finished or been torn down and no
\* start_pipeline or kill_process call is between its steps, task_handles
\* holds no entry for the process.
C19_NoHandleLeak ==
    \A i \in Ids :
        (TaskEnded(i) /\ NothingInFlight(i)) => i \notin task_handles

\* Between create_and_register_process and tokio::spawn the registry holds
\* the new Pending process and no run exists; once start_pipeline has
\* returned the id, the registry holds a process under it.
Retained(i) ==
    /\ starting[i] = "registered" =>
          processes[i] = create_process(i) /\ task[i].pc = "none"
    /\ starting[i] # "none" => InRegistry(i)

\* C20: the process is registered as Pending before its run starts, the
\* registry holds it when start_pipeline returns the id, and no step ever
\* removes it.
C20_RegisteredAndRetained ==
    [][\A i \in Ids :
          /\ Retained(i)
          /\ Retained(i)'
          /\ InRegistry(i) => InRegistry(i)']_vars

\* C20 witness: start_pipeline has returned the id while the run has not yet
\* executed anything and the registered process is still Pending.
C20_Witness ==
    \E i \in Ids :
        /\ Known(i)
        /\ task[i].pc = "create"
        /\ processes[i] = create_process(i)
        /\ Len(pipeline[i]) = 2

\* A pause, resume or kill call made with id u returns in this step.
NotFoundReturns(u) == pause_not_found(u) \/ resume_not_found(u) \/ KillNotFound(u)

\* A step of a pause, resume or kill call made with id u.
NotFoundCall(u) == NotFoundReturns(u) \/ KillAbortUnknown(u)

\* C21: pause, resume and kill called with an id that is not in the registry
\* return a not-found error, and no step of such a call changes a registered
\* process, a task or a task handle, or sends an event.
C21_UnknownIdChangesNothing ==
    [][\A u \in Ids :
          /\ NotFoundReturns(u) => result' = "NotFound"
          /\ NotFoundCall(u) =>
                /\ processes' = processes
                /\ task_handles' = task_handles
                /\ task' = task
                /\ events' = events]_vars

\* C21 witness: a call with the unknown id has returned not-found while the
\* started process is registered, its run is under way and its handle stored.
C21_Witness ==
    /\ result = "NotFound"
    /\ ops = MaxOps
    /\ \E i \in Called :
          /\ InRegistry(i)
          /\ i \in task_handles
          /\ At(i, "review")
          /\ ~task[i].abort
    /\ \A u \in Unknown : ~InRegistry(u) /\ ~killing[u]

\* The name is registered / registered and available in the AgentManager.
IsRegistered(name) == name \in DOMAIN agents /\ agents[name] # NoAgent

IsAvailable(name) == IsRegistered(name) /\ agents[name] \in {"success", "failing"}

\* C22: execute(name): a registered, available agent gives its own stream and
\* no other agent is consulted; a registered, unavailable one gives the
\* stream of the fallback if a fallback with another name is configured,
\* registered and available; every other case is a NotAvailable error, with
\* one message for a name not found and another for one found but unavailable.
C22_ExecuteRouting ==
    executed.agent_name # "-" =>
        LET name == executed.agent_name
            r == executed.result
            fb == fallback_agent_name
        IN IF IsAvailable(name)
           THEN /\ r.ok
                /\ r.by = name
                /\ r.stream = MockEvents(agents[name])
                /\ r.consulted = {name}
           ELSE IF /\ IsRegistered(name)
                   /\ fb # "None"
                   /\ fb # name
                   /\ IsAvailable(fb)
           THEN /\ r.ok
                /\ r.by = fb
                /\ r.stream = MockEvents(agents[fb])
           ELSE /\ ~r.ok
                /\ r.error = "NotAvailable"
                /\ r.message = IF IsRegistered(name)
                               THEN "is not available and no fallback succeeded"
                               ELSE "not found in registry"

\* C22 witness: the requested agent is registered and unavailable and the
\* call returned the stream of the fallback, a failing agent.
C22_Witness ==
    /\ executed.agent_name = "primary"
    /\ agents["primary"] = "unavailable"
    /\ fallback_agent_name = "fallback"
    /\ agents["fallback"] = "failing"
    /\ executed.result.ok
    /\ executed.result.by = "fallback"
    /\ executed.result.stream = FailingStream

\* A non-blank line that was read and does not parse as the adapter's message.
FailsToParse(line) == line \in {"bad_schema", "garbage"}

\* The StreamParseError items the stream has yielded for line k.
ParseErrorsFor(k) ==
    {n \in 1..Len(adapter_stream.items) :
        /\ adapter_stream.items[n].type = "StreamParseError"
        /\ adapter_stream.items[n].line = k}

\* The stream has yielded the event of line k.
Delivered(k) ==
    \E n \in 1..Len(adapter_stream.items) :
        adapter_stream.items[n] = Item("Ok", k, child_stdout[k])

\* C23: in every adapter, a non-blank line that fails to parse yields exactly
\* one StreamParseError item for that line and does not end the stream: once
\* the stream has ended, the event of every later line has been delivered.
C23_ParseErrorIsOneItem ==
    adapter_stream.adapter \in Adapters =>
        \A k \in 1..adapter_stream.pos :
            FailsToParse(child_stdout[k]) =>
                /\ Cardinality(ParseErrorsFor(k)) = 1
                /\ adapter_stream.done =>
                       \A j \in (k + 1)..Len(child_stdout) :
                           child_stdout[j] = "event" => Delivered(j)

Positions(out) == [k \in 1..Len(out) |-> k]

\* One result per non-blank line of out, in line order: Ok with the parsed
\* value, or StreamParseError for a line that is not JSON.
OnePerNonBlankLine(out) ==
    LET nb == SelectSeq(Positions(out), LAMBDA k : out[k] # "blank")
    IN [n \in 1..Len(nb) |->
           Item(IF IsJson(out[nb[n]]) THEN "Ok" ELSE "StreamParseError",
                nb[n], out[nb[n]])]

\* C24: the stream of CliExecutor::execute yields exactly one result per
\* non-blank stdout line, in line order, and nothing for blank lines: what it
\* has yielded is always a prefix of that list, and the whole list once the
\* stream has ended.
C24_OneResultPerLine ==
    (adapter_stream.adapter = "cli" /\ adapter_stream.spawned) =>
        /\ IsPrefix(adapter_stream.items, OnePerNonBlankLine(child_stdout))
        /\ adapter_stream.done =>
               adapter_stream.items = OnePerNonBlankLine(child_stdout)

CompletedItems ==
    {n \in 1..Len(adapter_stream.items) : adapter_stream.items[n].type = "Completed"}

\* The stream has ended, Completed is its last item and occurs once.
EndsWithCompleted ==
    /\ adapter_stream.done
    /\ Len(adapter_stream.items) >= 1
    /\ adapter_stream.items[Len(adapter_stream.items)].type = "Completed"
    /\ Cardinality(CompletedItems) = 1

\* C25: the Qwen stream yields no Completed before it ends, it ends with
\* Completed as its last item, yielded once, and a stream that is polled
\* after stdout has closed does end.
C25_QwenEndsWithCompleted ==
    /\ [](adapter_stream.adapter = "qwen" =>
              /\ ~adapter_stream.done => CompletedItems = {}
              /\ adapter_stream.done => EndsWithCompleted)
    /\ (adapter_stream.adapter = "qwen") ~> EndsWithCompleted

\* C25 witness: the Qwen stream has ended after an event, an unparsable line
\* and another event.
C25_Witness ==
    /\ adapter_stream.adapter = "qwen"
    /\ child_stdout = <<"event", "garbage", "event">>
    /\ adapter_stream.done
    /\ Len(adapter_stream.items) = 3
    /\ adapter_stream.items[3].type = "Completed"

\* C26: AGENTS.md is created only when absent and never overwritten: once the
\* file exists no step of any invocation, concurrent ones and those of
\* another agent included, changes its content.
C26_NeverOverwritten ==
    [][agents_md # Absent => agents_md' = agents_md]_vars

\* The events the listener has got, in the order it got them.
Received == [n \in 1..Len(listener) |-> events[listener[n]]]

\* The events sent for registry key i, by its run or by calls made with i.
SentFor(ev, i) == SelectSeq(ev, LAMBDA e : e.key = i)

C28_LogsAppendOnly ==
    [][\A i \in Ids :
          /\ IsPrefix(processes[i].logs, processes'[i].logs)
          /\ IsPrefix(task[i].process.logs, task'[i].process.logs)
          /\ (task[i].process # NoProc
                 /\ task'[i].process.logs # task[i].process.logs) =>
                 task'[i].process.status = task[i].process.status]_vars

\* C28 witness: a run of two steps has logged, returned and been written back.
C28_Witness ==
    \E i \in Ids :
        /\ task[i].pc = "done"
        /\ Len(pipeline[i]) = 2
        /\ Len(task[i].process.logs) >= 5
        /\ processes[i].logs = task[i].process.logs

\* The run of i is between its first send and its return.
RunInProgress(i) ==
    task[i].pc \in {"start", "loop", "execute", "pump", "agent_done", "fail",
                    "fail_error", "review", "complete_event"}

\* The status of the latest ProcessStatusUpdate sent for i ("-": none yet).
LastStatusSent(ev, i) ==
    LET u == SelectSeq(ev, LAMBDA e : IsStatusEvent(e, i))
    IN IF u = <<>> THEN "-" ELSE u[Len(u)].status

\* C29: while the run of a process is in progress and has reported a status,
\* the process get_process returns has the status reported last.
C29_GetReflectsRun ==
    \A i \in Ids :
        (RunInProgress(i) /\ InRegistry(i) /\ LastStatusSent(events, i) # "-") =>
            processes[i].status = LastStatusSent(events, i)

\* C30: once the task of a process has ended and no start or kill call is
\* between its steps, the process get_process returns has the status of the
\* latest ProcessStatusUpdate sent for it.
C30_FinalStatusIsLastAnnounced ==
    \A i \in Ids :
        (TaskEnded(i) /\ NothingInFlight(i) /\ LastStatusSent(events, i) # "-") =>
            processes[i].status = LastStatusSent(events, i)

\* The lines the run of i has sent as ProcessLogChunk events, in order.
LogChunks(ev, i) ==
    LET u == SelectSeq(ev, LAMBDA e : FromRun(e, i) /\ e.type = "ProcessLogChunk")
    IN [k \in 1..Len(u) |-> u[k].content]

\* a can be obtained from b by deleting elements: b contains every element of
\* a in the same order.
RECURSIVE IsSubsequence(_, _)
IsSubsequence(a, b) ==
    IF a = <<>> THEN TRUE
    ELSE IF b = <<>> THEN FALSE
    ELSE IF Head(a) = Head(b) THEN IsSubsequence(Tail(a), Tail(b))
    ELSE IsSubsequence(a, Tail(b))

\* C31: once the task of a run has ended and the registered process is
\* Completed or Failed, the registered log list contains every line the run
\* sent as a ProcessLogChunk event, in the order of the events.
C31_RegistryKeepsEmittedLogs ==
    \A i \in Ids :
        (task[i].pc = "done" /\ processes[i].status \in {"Completed", "Failed"}) =>
            IsSubsequence(LogChunks(events, i), processes[i].logs)

\* C32: with a listener that keeps consuming, every pause, resume, kill,
\* get_process and get_all_processes call that has been made returns, and so
\* does every start_pipeline call, whatever the interleaving with the other
\* calls and with the task.
C32_EveryCallReturns ==
    /\ \A c \in Callers : (calls[c].pc # "idle") ~> (calls[c].pc = "returned")
    /\ \A i \in ProcIds : (starting[i] # "none") ~> (starting[i] = "returned")

\* C32 witness: a kill call waits for the registry while another call holds
\* it, waiting for a free slot of the full channel to send its second event.
C32_Witness ==
    \E c, d \in Callers :
        /\ calls[c].op = "kill_process" /\ calls[c].pc = "registry"
        /\ calls[d].pc = "send2" /\ registry_lock = d
        /\ ~HasRoom

\* Number of HumanReview steps of a pipeline.
Checkpoints(p) == Cardinality({k \in 1..Len(p) : p[k].kind = "HumanReview"})

\* Number of times the run of i has parked: its StatusUpdate(HumanReview)s.
ParksOf(ev, i) ==
    Cardinality({k \in 1..Len(ev) : IsRunStatus(ev[k], i, "HumanReview")})

\* C33: in a pipeline with k checkpoints the run parks at the (j+1)-th only
\* once j resume calls have been made and completes only once k have been
\* made; and it does park at each: once the first park has been answered by
\* a resume call and nothing more can happen for the process (its task has
\* ended, no call is in flight, resume was the only control call), a run with
\* two or more checkpoints has parked a second time.
C33_ParksAtEachCheckpoint ==
    \A i \in Ids :
        /\ ParksOf(events, i) <= CallsOf(events, "ProcessResumed", i) + 1
        /\ HasRunEvent(i, "ProcessCompleted") =>
               CallsOf(events, "ProcessResumed", i) >= Checkpoints(pipeline[i])
        /\ ( /\ Checkpoints(pipeline[i]) >= 2
             /\ TaskEnded(i)
             /\ NothingInFlight(i)
             /\ ResumedOnceAfterPark(i)
             /\ CallsOf(events, "ProcessKilled", i) = 0
             /\ \A k \in 1..Len(events) : ~IsPause(events[k], i) )
           => ParksOf(events, i) >= 2

C35_StartedFirstCompletedLast ==
    \A i \in Ids :
        LET e == EventsOf(events, i)
        IN /\ e # <<>> => e[1].type = "ProcessStarted"
           /\ \A k \in 1..Len(e) :
                  e[k].type = "ProcessLogChunk" =>
                      \E j \in 1..(k - 1) :
                          e[j].type = "ProcessStatusUpdate" /\ e[j].status = "Running"
           /\ HasRunEvent(i, "ProcessCompleted") =>
                  e[Len(e)].type = "ProcessCompleted"

\* C36: all events of one run carry the same process id, and that id is the
\* one start_pipeline registered the process under and returned.
C36_RunEventsCarryRegisteredId ==
    \A i \in Ids :
        /\ \A a, b \in 1..Len(events) :
               (FromRun(events[a], i) /\ FromRun(events[b], i)) =>
                   events[a].process_id = events[b].process_id
        /\ \A k \in 1..Len(events) :
               FromRun(events[k], i) => events[k].process_id = i

\* The stream mock-agent yields.
MockStream == executed.result.stream

Loggable == {"Thought", "ToolCall", "MessageChunk"}

\* The log lines of the run of i that come from items of mock-agent's stream:
\* their text is a position of the stream.
ItemLines(i) ==
    SelectSeq(task[i].process.logs,
              LAMBDA l : l[2] \in {ToString(k) : k \in 1..Len(MockStream)})

\* The pump over mock-agent's stream has ended: the run is behind its first
\* step.
PumpEnded(i) ==
    \/ task[i].pc \in {"agent_done", "fail", "fail_error", "complete_event"}
    \/ RunReturned(i)
    \/ task[i].step_index >= 1

\* C37: the lines the pump has logged are the lines of the first items of the
\* stream, one per item and in stream order, each item being a Thought,
\* ToolCall or MessageChunk with no Completed item before it; and once the
\* pump has ended, every item before the first Completed (or Err) item has
\* its line.
C37_PumpLogsUpToCompleted ==
    \A i \in Ids :
        task[i].process # NoProc =>
            /\ Len(ItemLines(i)) <= Len(MockStream)
            /\ \A k \in 1..Len(ItemLines(i)) :
                   /\ ItemLines(i)[k] = LogLineOf(MockStream[k])
                   /\ MockStream[k][1] \in Loggable
                   /\ \A j \in 1..k : MockStream[j][1] # "Completed"
            /\ PumpEnded(i) => Len(ItemLines(i)) = FirstStop(MockStream) - 1

\* C37 witness: the pump has ended over a stream with a ToolCall item, then
\* Completed, then an item behind Completed.
C37_Witness ==
    \E i \in Ids :
        /\ PumpEnded(i)
        /\ Len(MockStream) = 3
        /\ MockStream[1][1] = "ToolCall"
        /\ MockStream[2][1] = "Completed"
        /\ MockStream[3][1] = "MessageChunk"
        /\ ItemLines(i) = << <<"[Tool Call] ", "1">> >>

\* A stream with no Completed item and no error item.
EndsSilently(st) == \A k \in 1..Len(st) : st[k][1] \in Loggable

\* C38: when mock-agent's stream ends with no Completed item and no error
\* item, the step counts as a success: the run does not fail (no Failed
\* status, no ProcessError), it goes from the pump to the "Agent completed"
\* log line of the step, and once it has returned it has begun every step of
\* the pipeline and is Completed.
C38_SilentEndIsSuccess ==
    \A i \in Ids :
        (task[i].process # NoProc /\ EndsSilently(MockStream)) =>
            /\ task[i].process.status # "Failed"
            /\ processes[i].status # "Failed"
            /\ ~HasRunEvent(i, "ProcessError")
            /\ (PumpEnded(i) /\ ~At(i, "agent_done")) =>
                   \E k \in 1..Len(events) :
                       /\ FromRun(events[k], i)
                       /\ events[k].content = <<"Agent completed: ", "mock-agent">>
            /\ RunReturned(i) =>
                   /\ task[i].process.status = "Completed"
                   /\ StepsBegun(events, i) = Len(pipeline[i])

\* C38 witness: a stream of two items without Completed has been pumped in a
\* pipeline of two steps, and the run has completed.
C38_Witness ==
    \E i \in Ids :
        /\ Len(MockStream) = 2
        /\ EndsSilently(MockStream)
        /\ Len(pipeline[i]) = 2
        /\ task[i].pc = "done"
        /\ processes[i].status = "Completed"
        /\ StepsBegun(events, i) = 2

\* What the run of i has sent, as tokens.
RunTokens(ev, i) ==
    [k \in 1..Len(RunEvents(ev, i)) |-> TokenOf(RunEvents(ev, i)[k])]

\* C39: the run of a pipeline with zero steps sends ProcessStarted,
\* StatusUpdate(Running), StatusUpdate(Completed) and ProcessCompleted, in
\* that order and nothing else (no log chunk); once it has returned it has
\* sent all four and its Process is Completed with no log line, and with no
\* pause, resume or kill call so is the registered process once the task has
\* ended.
C39_EmptyPipelineCompletes ==
    \A i \in Ids :
        (starting[i] # "none" /\ pipeline[i] = <<>>) =>
            /\ IsPrefix(RunTokens(events, i),
                        <<"ProcessStarted", "Running", "Completed", "ProcessCompleted">>)
            /\ RunReturned(i) =>
                   /\ Len(RunTokens(events, i)) = 4
                   /\ task[i].process.status = "Completed"
                   /\ task[i].process.logs = <<>>
            /\ (task[i].pc = "done" /\ ops = 0) =>
                   /\ processes[i].status = "Completed"
                   /\ processes[i].logs = <<>>

\* C39 witness: the run of the empty pipeline has ended and the registered
\* process is Completed.
C39_Witness ==
    \E i \in Ids :
        /\ starting[i] = "returned"
        /\ pipeline[i] = <<>>
        /\ task[i].pc = "done"
        /\ Len(RunTokens(events, i)) = 4
        /\ processes[i].status = "Completed"

\* The headless program has exited.
Exited == \A i \in Ids : task[i].pc = "done"

====
